---- MODULE Spec2Model ----
(***************************************************************************)
(* A model of TrustyKeymasterContext (trusty_keymaster_context.cpp): the   *)
(* authorization classifier, the key-blob codec (create / parse /          *)
(* upgrade), and the one-time latches of the boot parameters and the       *)
(* system version.                                                         *)
(*                                                                         *)
(* Collaborators that live outside the file (EncryptKey, DecryptKey,       *)
(* SerializeAuthEncryptedBlob, DeserializeAuthEncryptedBlob, the key       *)
(* factories' LoadKey, hwkey) are modelled by their contract at the call   *)
(* site: authenticated encryption is symbolic (a ciphertext opens only     *)
(* under the master key and the exact authenticated data it was sealed     *)
(* with).                                                                  *)
(***************************************************************************)
EXTENDS Integers, Sequences, FiniteSets, TLC

VARIABLES
    build,                \* compile-time switches of this build (fixed at Init)
    verified_boot_key_,   \* Buffer: sequence of bytes
    verified_boot_state_, \* keymaster_verified_boot_t
    device_locked_,       \* bool
    verified_boot_hash_,  \* Buffer
    boot_os_version_,     \* uint32_t
    boot_os_patchlevel_,  \* uint32_t
    version_info_set_,    \* bool
    root_of_trust_set_,   \* bool
    held,                 \* the key blob the (untrusted) caller currently stores
    last,                 \* the last call made on the context and what it returned
    threads,              \* racing callers of SetBootParams / SetSystemVersion
    boot_params_calls,    \* history: SetBootParams calls since the constructor
                          \* (0, 1, or 2 for two or more)
    rng_initialized_,     \* bool
    calls_since_reseed_,  \* the counter of ShouldReseedRng
    rng_history,          \* history: SeedRngIfNeeded checks and the reseeds they
                          \* asked for, since the RNG was first seeded
    hwkey_sessions,       \* the hwkey service: sessions of this task that are
                          \* open (0, 1, or 2 for two or more)
    auth_token_key_initialized_,  \* bool
    auth_token_key_       \* uint8_t[kAuthTokenKeySize]

ctx == <<verified_boot_key_, verified_boot_state_, device_locked_,
         verified_boot_hash_, boot_os_version_, boot_os_patchlevel_,
         version_info_set_, root_of_trust_set_>>

rot == <<verified_boot_key_, verified_boot_state_, device_locked_,
         verified_boot_hash_, root_of_trust_set_>>

vars == <<build, verified_boot_key_, verified_boot_state_, device_locked_,
          verified_boot_hash_, boot_os_version_, boot_os_patchlevel_,
          version_info_set_, root_of_trust_set_, held, last, threads,
          boot_params_calls, rng_initialized_, calls_since_reseed_,
          rng_history, hwkey_sessions, auth_token_key_initialized_,
          auth_token_key_>>

rng == <<rng_initialized_, calls_since_reseed_, rng_history>>

token_key == <<auth_token_key_initialized_, auth_token_key_>>

(***************************************************************************)
(* Bounds of the model.                                                    *)
(***************************************************************************)
MaxOsVersion == 2       \* os_version arguments range over 0..MaxOsVersion
MaxOsPatchlevel == 1    \* os_patchlevel arguments range over 0..MaxOsPatchlevel
MaxDescLen == 2         \* key descriptions given to SetAuthorizations alone

None == [none |-> TRUE]  \* a null pointer, an unset record
NoBlob == <<>>           \* a KeymasterKeyBlob nothing was written to

(***************************************************************************)
(* keymaster_defs.h values used by the file.                               *)
(***************************************************************************)
KM_ALGORITHM_RSA == 1
KM_ALGORITHM_EC == 3
KM_ALGORITHM_AES == 32
KM_ALGORITHM_TRIPLE_DES == 33
KM_ALGORITHM_HMAC == 128

HW_AUTH_PASSWORD == 1
HW_AUTH_FINGERPRINT == 2

KM_ORIGIN_GENERATED == 0
KM_ORIGIN_IMPORTED == 2

VerifiedBootStates == {"KM_VERIFIED_BOOT_VERIFIED", "KM_VERIFIED_BOOT_SELF_SIGNED",
                       "KM_VERIFIED_BOOT_UNVERIFIED", "KM_VERIFIED_BOOT_FAILED"}

(***************************************************************************)
(* The tag classes of SetAuthorizations' switch.                           *)
(***************************************************************************)
ForbiddenTags ==
    {"KM_TAG_ASSOCIATED_DATA", "KM_TAG_AUTH_TOKEN", "KM_TAG_BOOTLOADER_ONLY",
     "KM_TAG_INVALID", "KM_TAG_MAC_LENGTH", "KM_TAG_NONCE",
     "KM_TAG_ROOT_OF_TRUST", "KM_TAG_UNIQUE_ID",
     "KM_TAG_IDENTITY_CREDENTIAL_KEY"}

CertificateInfoTags ==
    {"KM_TAG_ATTESTATION_APPLICATION_ID", "KM_TAG_ATTESTATION_CHALLENGE",
     "KM_TAG_ATTESTATION_ID_BRAND", "KM_TAG_ATTESTATION_ID_DEVICE",
     "KM_TAG_ATTESTATION_ID_IMEI", "KM_TAG_ATTESTATION_ID_MANUFACTURER",
     "KM_TAG_ATTESTATION_ID_MEID", "KM_TAG_ATTESTATION_ID_MODEL",
     "KM_TAG_ATTESTATION_ID_PRODUCT", "KM_TAG_ATTESTATION_ID_SERIAL",
     "KM_TAG_CERTIFICATE_NOT_AFTER", "KM_TAG_CERTIFICATE_NOT_BEFORE",
     "KM_TAG_CERTIFICATE_SERIAL", "KM_TAG_CERTIFICATE_SUBJECT",
     "KM_TAG_RESET_SINCE_ID_ROTATION"}

IgnoredTags ==
    {"KM_TAG_ALLOW_WHILE_ON_BODY",
     "KM_TAG_ALL_APPLICATIONS", "KM_TAG_ROLLBACK_RESISTANT",
     "KM_TAG_CONFIRMATION_TOKEN",
     "KM_TAG_APPLICATION_ID", "KM_TAG_APPLICATION_DATA"}

SetBelowTags ==
    {"KM_TAG_BOOT_PATCHLEVEL", "KM_TAG_ORIGIN", "KM_TAG_OS_PATCHLEVEL",
     "KM_TAG_OS_VERSION", "KM_TAG_VENDOR_PATCHLEVEL"}

HwEnforcedTags ==
    {"KM_TAG_ALGORITHM", "KM_TAG_AUTH_TIMEOUT", "KM_TAG_BLOB_USAGE_REQUIREMENTS",
     "KM_TAG_BLOCK_MODE", "KM_TAG_CALLER_NONCE", "KM_TAG_DIGEST",
     "KM_TAG_EARLY_BOOT_ONLY", "KM_TAG_ECIES_SINGLE_HASH_MODE",
     "KM_TAG_EC_CURVE", "KM_TAG_KDF", "KM_TAG_KEY_SIZE",
     "KM_TAG_MAX_USES_PER_BOOT", "KM_TAG_MIN_MAC_LENGTH",
     "KM_TAG_MIN_SECONDS_BETWEEN_OPS", "KM_TAG_NO_AUTH_REQUIRED",
     "KM_TAG_PADDING", "KM_TAG_PURPOSE", "KM_TAG_RSA_OAEP_MGF_DIGEST",
     "KM_TAG_RSA_PUBLIC_EXPONENT", "KM_TAG_TRUSTED_CONFIRMATION_REQUIRED",
     "KM_TAG_TRUSTED_USER_PRESENCE_REQUIRED",
     "KM_TAG_UNLOCKED_DEVICE_REQUIRED", "KM_TAG_USER_SECURE_ID"}

KeystoreEnforcedTags ==
    {"KM_TAG_ACTIVE_DATETIME", "KM_TAG_ALL_USERS", "KM_TAG_CREATION_DATETIME",
     "KM_TAG_EXPORTABLE", "KM_TAG_INCLUDE_UNIQUE_ID", "KM_TAG_MAX_BOOT_LEVEL",
     "KM_TAG_ORIGINATION_EXPIRE_DATETIME", "KM_TAG_USAGE_COUNT_LIMIT",
     "KM_TAG_USAGE_EXPIRE_DATETIME", "KM_TAG_USER_ID"}

Param(tag, val) == [tag |-> tag, val |-> val]

\* AuthorizationSet::find: index of the first entry with the tag, 0 for -1.
Find(set, tag) ==
    IF \E i \in 1..Len(set) : set[i].tag = tag
    THEN CHOOSE i \in 1..Len(set) :
            set[i].tag = tag /\ \A j \in 1..(i - 1) : set[j].tag # tag
    ELSE 0

Tags(set) == {set[i].tag : i \in 1..Len(set)}

\* entry.enumerated & mask, for a one-bit mask (a power of two)
BitAnd(value, mask) == ((value \div mask) % 2) * mask

(***************************************************************************)
(* TrustyKeymasterContext::SetAuthorizations.                              *)
(***************************************************************************)
\* A variant of MaskedUserAuthType: the entry is pushed as the caller gave it.
UnmaskedUserAuthType(entry) == entry

\* case KM_TAG_USER_AUTH_TYPE: the entry with its bitmask masked down.
MaskedUserAuthType(entry) ==
    Param(entry.tag,
          BitAnd(entry.val, HW_AUTH_PASSWORD)
          + (IF build.TEE_FINGERPRINT_AUTH_SUPPORTED
             THEN BitAnd(entry.val, HW_AUTH_FINGERPRINT) ELSE 0))

\* The bodies of the switch's cases. error # OK is a return out of the loop,
\* with the two sets as they stand.
Reject(error, hw, sw) == [error |-> error, hw |-> hw, sw |-> sw]

Skip(hw, sw) == [error |-> "KM_ERROR_OK", hw |-> hw, sw |-> sw]

\* A variant of ForbiddenInDescription: the forbidden tag is skipped like a
\* certificate-information tag.
ForbiddenSkipped(hw, sw) == Skip(hw, sw)

\* Tags that should never appear in key descriptions.
ForbiddenInDescription(hw, sw) == Reject("KM_ERROR_INVALID_KEY_BLOB", hw, sw)

\* Tags that are hardware-enforced: hw_enforced->push_back(entry)
HardwareEnforced(entry, hw, sw) ==
    [error |-> "KM_ERROR_OK", hw |-> Append(hw, entry), sw |-> sw]

\* A variant of KeystoreEnforced: the case falls through from the
\* hardware-enforced one, so the entry is pushed to both sets.
KeystoreEnforcedInBoth(entry, hw, sw) ==
    [error |-> "KM_ERROR_OK", hw |-> Append(hw, entry), sw |-> Append(sw, entry)]

\* Keystore-enforced tags: sw_enforced->push_back(entry)
KeystoreEnforced(entry, hw, sw) ==
    [error |-> "KM_ERROR_OK", hw |-> hw, sw |-> Append(sw, entry)]

\* case KM_TAG_STORAGE_KEY
StorageKey(entry, hw, sw) ==
    IF build.WITH_HWWSK_SUPPORT
    THEN HardwareEnforced(entry, hw, sw)
    ELSE Reject("KM_ERROR_UNIMPLEMENTED", hw, sw)

\* A variant of ClassifyEntry: the tags "set below" are pushed to hw_enforced
\* like the hardware-enforced ones.
ClassifyEntrySetBelowKept(entry, hw, sw) ==
    CASE entry.tag \in ForbiddenTags -> ForbiddenInDescription(hw, sw)
      [] entry.tag \in CertificateInfoTags -> Skip(hw, sw)
      [] entry.tag = "KM_TAG_ROLLBACK_RESISTANCE" ->
            Reject("KM_ERROR_ROLLBACK_RESISTANCE_UNAVAILABLE", hw, sw)
      [] entry.tag = "KM_TAG_DEVICE_UNIQUE_ATTESTATION" ->
            Reject("KM_ERROR_INVALID_ARGUMENT", hw, sw)
      [] entry.tag \in IgnoredTags -> Skip(hw, sw)
      [] entry.tag \in HwEnforcedTags \cup SetBelowTags ->
            HardwareEnforced(entry, hw, sw)
      [] entry.tag = "KM_TAG_STORAGE_KEY" -> StorageKey(entry, hw, sw)
      [] entry.tag = "KM_TAG_USER_AUTH_TYPE" ->
            HardwareEnforced(MaskedUserAuthType(entry), hw, sw)
      [] entry.tag \in KeystoreEnforcedTags -> KeystoreEnforced(entry, hw, sw)
      [] OTHER -> Skip(hw, sw)

\* One iteration of the loop: the switch on entry.tag.
ClassifyEntry(entry, hw, sw) ==
    CASE entry.tag \in ForbiddenTags -> ForbiddenInDescription(hw, sw)
      [] entry.tag \in CertificateInfoTags -> Skip(hw, sw)
      [] entry.tag = "KM_TAG_ROLLBACK_RESISTANCE" ->
            Reject("KM_ERROR_ROLLBACK_RESISTANCE_UNAVAILABLE", hw, sw)
      [] entry.tag = "KM_TAG_DEVICE_UNIQUE_ATTESTATION" ->
            Reject("KM_ERROR_INVALID_ARGUMENT", hw, sw)
      [] entry.tag \in IgnoredTags \cup SetBelowTags -> Skip(hw, sw)
      [] entry.tag \in HwEnforcedTags -> HardwareEnforced(entry, hw, sw)
      [] entry.tag = "KM_TAG_STORAGE_KEY" -> StorageKey(entry, hw, sw)
      [] entry.tag = "KM_TAG_USER_AUTH_TYPE" ->
            HardwareEnforced(MaskedUserAuthType(entry), hw, sw)
      [] entry.tag \in KeystoreEnforcedTags -> KeystoreEnforced(entry, hw, sw)
      [] OTHER -> Skip(hw, sw)  \* the switch has no default: the tag is skipped

\* AuthorizationSet::is_valid of an output set, translated: a push_back that
\* could not allocate leaves the set invalid.
TranslateAuthorizationSetError(err) ==
    CASE err = "OK" -> "KM_ERROR_OK"
      [] err = "ALLOCATION_FAILURE" -> "KM_ERROR_MEMORY_ALLOCATION_FAILED"
      [] err = "MALFORMED_DATA" -> "KM_ERROR_UNKNOWN_ERROR"

\* The code after the loop: origin and the boot versions go to hw_enforced,
\* then sw_enforced and hw_enforced are validated, in that order. set_error
\* gives is_valid() of the two sets (their storage is the allocator's).
FinishAuthorizations(origin, hw, sw, set_error) ==
    [error |-> IF set_error.sw # "OK"
               THEN TranslateAuthorizationSetError(set_error.sw)
               ELSE TranslateAuthorizationSetError(set_error.hw),
     hw |-> hw \o <<Param("KM_TAG_ORIGIN", origin),
                    Param("KM_TAG_OS_VERSION", boot_os_version_),
                    Param("KM_TAG_OS_PATCHLEVEL", boot_os_patchlevel_)>>,
     sw |-> sw]

RECURSIVE SetAuthorizationsFrom(_, _, _, _, _, _)
SetAuthorizationsFrom(key_description, i, origin, hw, sw, set_error) ==
    IF i > Len(key_description)
    THEN FinishAuthorizations(origin, hw, sw, set_error)
    ELSE LET r == ClassifyEntry(key_description[i], hw, sw) IN
         IF r.error # "KM_ERROR_OK"
         THEN r
         ELSE SetAuthorizationsFrom(key_description, i + 1, origin, r.hw, r.sw,
                                    set_error)

\* Both sets are cleared first, whatever the caller passed in.
SetAuthorizations(key_description, origin, set_error) ==
    SetAuthorizationsFrom(key_description, 1, origin, <<>>, <<>>, set_error)

(***************************************************************************)
(* The root of trust and the hidden authorizations.                        *)
(***************************************************************************)
\* The four bytes of the keymaster_verified_boot_t value (little endian).
BootStateBytes(state) ==
    CASE state = "KM_VERIFIED_BOOT_VERIFIED" -> <<0, 0, 0, 0>>
      [] state = "KM_VERIFIED_BOOT_SELF_SIGNED" -> <<1, 0, 0, 0>>
      [] state = "KM_VERIFIED_BOOT_UNVERIFIED" -> <<2, 0, 0, 0>>
      [] state = "KM_VERIFIED_BOOT_FAILED" -> <<3, 0, 0, 0>>

\* The byte of the bool.
BoolBytes(b) == IF b THEN <<1>> ELSE <<0>>

\* AuthorizationSet::GetTagValue: whether the tag is there, and the value of
\* its first entry.
HasTagValue(set, tag) == Find(set, tag) # 0
GetTagValue(set, tag) == set[Find(set, tag)].val

\* A variant of RootOfTrustEntries: the device-locked flag is not pushed.
RootOfTrustEntriesWithoutLock ==
    <<Param("KM_TAG_ROOT_OF_TRUST", verified_boot_key_),
      Param("KM_TAG_ROOT_OF_TRUST", BootStateBytes(verified_boot_state_))>>

\* The three root-of-trust entries, in the order they are pushed.
RootOfTrustEntries ==
    <<Param("KM_TAG_ROOT_OF_TRUST", verified_boot_key_),
      Param("KM_TAG_ROOT_OF_TRUST", BootStateBytes(verified_boot_state_)),
      Param("KM_TAG_ROOT_OF_TRUST", BoolBytes(device_locked_))>>

\* The entry pushed for TAG_APPLICATION_ID or TAG_APPLICATION_DATA, if any.
HiddenEntry(input_set, tag) ==
    IF HasTagValue(input_set, tag)
    THEN <<Param(tag, GetTagValue(input_set, tag))>>
    ELSE <<>>

\* A variant of BuildHiddenAuthorizations: the application data is pushed
\* before the application id.
BuildHiddenAuthorizationsDataFirst(input_set, hidden) ==
    [error |-> "KM_ERROR_OK",
     hidden |-> hidden \o HiddenEntry(input_set, "KM_TAG_APPLICATION_DATA")
                       \o HiddenEntry(input_set, "KM_TAG_APPLICATION_ID")
                       \o RootOfTrustEntries]

\* The hidden set's storage is taken to be allocated (is_valid() is OK).
BuildHiddenAuthorizations(input_set, hidden) ==
    [error |-> "KM_ERROR_OK",
     hidden |-> hidden \o HiddenEntry(input_set, "KM_TAG_APPLICATION_ID")
                       \o HiddenEntry(input_set, "KM_TAG_APPLICATION_DATA")
                       \o RootOfTrustEntries]

(***************************************************************************)
(* The master key.                                                         *)
(***************************************************************************)
\* What the hwkey service and the allocator do during one DeriveMasterKey.
HwkeyOutcomes == {"ok", "open_fails", "reset_fails", "derive_fails"}

\* The key hwkey_derive gives for the fixed label "KeymasterMaster".
DeviceMasterKey == [label |-> "KeymasterMaster", kdf |-> "HWKEY_KDF_VERSION_1"]

\* session: what became of the hwkey session of the call ("none" was opened,
\* or it is "closed", or it is still "open" at the return).
DeriveMasterKey(hwkey) ==
    CASE hwkey = "open_fails" ->
            [error |-> "KM_ERROR_UNKNOWN_ERROR", master_key |-> None,
             session |-> "none"]
      [] hwkey = "reset_fails" ->
            [error |-> "KM_ERROR_MEMORY_ALLOCATION_FAILED", master_key |-> None,
             session |-> "open"]
      [] hwkey = "derive_fails" ->
            [error |-> "KM_ERROR_UNKNOWN_ERROR", master_key |-> None,
             session |-> "open"]
      [] OTHER ->
            [error |-> "KM_ERROR_OK", master_key |-> DeviceMasterKey,
             session |-> "closed"]

\* The sessions a DeriveMasterKey leaves open at the hwkey service.
SessionsLeftOpen(master) == IF master.session = "open" THEN 1 ELSE 0

(***************************************************************************)
(* The wire form of a key blob: a sequence of tokens. Magic stands for the *)
(* seven bytes 'pKMblob', Byte(n) for one byte, and a "payload" token for  *)
(* the bytes SerializeAuthEncryptedBlob writes.                            *)
(***************************************************************************)
Magic == [k |-> "magic"]
Byte(n) == [k |-> "byte", v |-> n]

kKeystoreKeyBlobMagicSize == 7
kKeystoreKeyBlobPrefixSize == kKeystoreKeyBlobMagicSize + 1
PayloadSize == 16       \* a serialized blob is longer than the prefix

TokenSize(t) ==
    CASE t.k = "magic" -> kKeystoreKeyBlobMagicSize
      [] t.k = "byte" -> 1
      [] OTHER -> PayloadSize

RECURSIVE BlobSize(_)
BlobSize(blob) ==
    IF blob = <<>> THEN 0 ELSE TokenSize(Head(blob)) + BlobSize(Tail(blob))

\* EncryptKey: the ciphertext of key_material under master_key, with the two
\* enforced sets and the hidden set as authenticated data.
EncryptKey(key_material, format, hw_enforced, sw_enforced, hidden, master_key) ==
    [format |-> format,
     sealed |-> key_material,
     key |-> master_key,
     aad |-> <<hw_enforced, sw_enforced, hidden>>]

\* DecryptKey: the plaintext, if the key and the authenticated data are those
\* of the encryption; the tag mismatch otherwise.
DecryptKey(deserialized_key, hidden, master_key) ==
    IF /\ deserialized_key.encrypted_key.key = master_key
       /\ deserialized_key.encrypted_key.aad =
             <<deserialized_key.hw_enforced, deserialized_key.sw_enforced, hidden>>
    THEN [error |-> "KM_ERROR_OK",
          key_material |-> deserialized_key.encrypted_key.sealed]
    ELSE [error |-> "KM_ERROR_INVALID_KEY_BLOB", key_material |-> NoBlob]

SerializeAuthEncryptedBlob(encrypted_key, hw_enforced, sw_enforced) ==
    <<[k |-> "payload", encrypted_key |-> encrypted_key,
       hw_enforced |-> hw_enforced, sw_enforced |-> sw_enforced]>>

\* DeserializeAuthEncryptedBlob: only the exact bytes of a serialized blob
\* deserialize.
DeserializeAuthEncryptedBlob(blob) ==
    IF Len(blob) = 1 /\ blob[1].k = "payload"
    THEN [error |-> "KM_ERROR_OK",
          key |-> [encrypted_key |-> blob[1].encrypted_key,
                   hw_enforced |-> blob[1].hw_enforced,
                   sw_enforced |-> blob[1].sw_enforced]]
    ELSE [error |-> "KM_ERROR_INVALID_KEY_BLOB", key |-> None]

(***************************************************************************)
(* CreateAuthEncryptedKeyBlob, CreateKeyBlob.                              *)
(***************************************************************************)
\* EncryptKey and SerializeAuthEncryptedBlob are taken to succeed.
CreateAuthEncryptedKeyBlob(key_description, key_material, hw_enforced, sw_enforced, hwkey) ==
    LET hidden == BuildHiddenAuthorizations(key_description, <<>>)
        master == DeriveMasterKey(hwkey)
    IN  IF hidden.error # "KM_ERROR_OK"
        THEN [error |-> hidden.error, blob |-> NoBlob, sessions |-> 0]
        ELSE IF master.error # "KM_ERROR_OK"
        THEN [error |-> master.error, blob |-> NoBlob,
              sessions |-> SessionsLeftOpen(master)]
        ELSE [error |-> "KM_ERROR_OK",
              blob |-> SerializeAuthEncryptedBlob(
                           EncryptKey(key_material, "AES_GCM_WITH_SW_ENFORCED",
                                      hw_enforced, sw_enforced, hidden.hidden,
                                      master.master_key),
                           hw_enforced, sw_enforced),
              sessions |-> SessionsLeftOpen(master)]

CreateKeyBlob(key_description, origin, key_material, set_error, hwkey) ==
    LET auth == SetAuthorizations(key_description, origin, set_error)
        made == CreateAuthEncryptedKeyBlob(key_description, key_material,
                                           auth.hw, auth.sw, hwkey)
    IN  IF auth.error # "KM_ERROR_OK"
        THEN [error |-> auth.error, blob |-> NoBlob,
              hw_enforced |-> auth.hw, sw_enforced |-> auth.sw, sessions |-> 0]
        ELSE [error |-> made.error, blob |-> made.blob,
              hw_enforced |-> auth.hw, sw_enforced |-> auth.sw,
              sessions |-> made.sessions]

(***************************************************************************)
(* GetKeyFactory, ParseKeyBlob.                                            *)
(***************************************************************************)
GetKeyFactory(algorithm) ==
    CASE algorithm = KM_ALGORITHM_RSA -> "rsa_factory_"
      [] algorithm = KM_ALGORITHM_EC -> "ec_factory_"
      [] algorithm = KM_ALGORITHM_AES -> "aes_factory_"
      [] algorithm = KM_ALGORITHM_HMAC -> "hmac_factory_"
      [] algorithm = KM_ALGORITHM_TRIPLE_DES -> "tdes_factory_"
      [] OTHER -> "nullptr"

\* What factory->LoadKey(...) can do when factory is the null pointer
\* (undefined behaviour): the task faults, or the call comes back with any
\* status and no key loaded.
NullCallOutcomes == {"TASK_FAULT", "KM_ERROR_OK", "KM_ERROR_UNKNOWN_ERROR"}

\* KeyFactory::LoadKey of a real factory: the key made of the decrypted
\* material and the blob's two sets.
LoadKey(factory, key_material, hw_enforced, sw_enforced) ==
    [error |-> "KM_ERROR_OK",
     key |-> [factory |-> factory, key_material |-> key_material,
              hw_enforced |-> hw_enforced, sw_enforced |-> sw_enforced]]

\* The blob has a keystore km_compat prefix.
HasKeystorePrefix(blob) ==
    /\ BlobSize(blob) >= kKeystoreKeyBlobPrefixSize
    /\ blob[1] = Magic

\* A variant of StripPrefix: the blob from kKeystoreKeyTypeOffset on (the
\* type byte is left on it).
StripMagicOnly(blob) == SubSeq(blob, 2, Len(blob))

\* The blob behind the prefix: blob.begin() + kKeystoreKeyBlobPrefixSize, to the end.
StripPrefix(blob) == SubSeq(blob, 3, Len(blob))

\* A variant of ParseDeserializedKey with the return that is commented out:
\* an AES_OCB blob requires an upgrade unless allow_ocb is set.
ParseDeserializedKeyOcbRejected(deserialized_key, additional_params, allow_ocb, hwkey, ub) ==
    LET master == DeriveMasterKey(hwkey)
        hidden == BuildHiddenAuthorizations(additional_params, <<>>)
        plain == DecryptKey(deserialized_key, hidden.hidden, master.master_key)
        algorithm == Find(deserialized_key.hw_enforced, "KM_TAG_ALGORITHM")
        factory == GetKeyFactory(deserialized_key.hw_enforced[algorithm].val)
        loaded == LoadKey(factory, plain.key_material, deserialized_key.hw_enforced,
                          deserialized_key.sw_enforced)
        result ==
            IF master.error # "KM_ERROR_OK" THEN [error |-> master.error, key |-> None]
            ELSE IF hidden.error # "KM_ERROR_OK" THEN [error |-> hidden.error, key |-> None]
            ELSE IF plain.error # "KM_ERROR_OK" THEN [error |-> plain.error, key |-> None]
            ELSE IF algorithm = 0 THEN [error |-> "KM_ERROR_INVALID_KEY_BLOB", key |-> None]
            ELSE IF factory = "nullptr" THEN [error |-> ub, key |-> None]
            ELSE loaded
    IN  IF deserialized_key.encrypted_key.format = "AES_OCB" /\ ~allow_ocb
        THEN [error |-> "KM_ERROR_KEY_REQUIRES_UPGRADE", key |-> None, sessions |-> 0]
        ELSE [error |-> result.error, key |-> result.key,
              sessions |-> SessionsLeftOpen(master)]

\* The steps of ParseKeyBlob after deserialization. The test of the format
\* and of allow_ocb guards a log line only.
ParseDeserializedKey(deserialized_key, additional_params, allow_ocb, hwkey, ub) ==
    LET master == DeriveMasterKey(hwkey)
        hidden == BuildHiddenAuthorizations(additional_params, <<>>)
        plain == DecryptKey(deserialized_key, hidden.hidden, master.master_key)
        algorithm == Find(deserialized_key.hw_enforced, "KM_TAG_ALGORITHM")
        factory == GetKeyFactory(deserialized_key.hw_enforced[algorithm].val)
        loaded == LoadKey(factory, plain.key_material, deserialized_key.hw_enforced,
                          deserialized_key.sw_enforced)
        result ==
            IF master.error # "KM_ERROR_OK" THEN [error |-> master.error, key |-> None]
            ELSE IF hidden.error # "KM_ERROR_OK" THEN [error |-> hidden.error, key |-> None]
            ELSE IF plain.error # "KM_ERROR_OK" THEN [error |-> plain.error, key |-> None]
            ELSE IF algorithm = 0 THEN [error |-> "KM_ERROR_INVALID_KEY_BLOB", key |-> None]
            ELSE IF factory = "nullptr" THEN [error |-> ub, key |-> None]
            ELSE loaded
    IN  [error |-> result.error, key |-> result.key,
         sessions |-> SessionsLeftOpen(master)]

ParseKeyBlob(blob, additional_params, allow_ocb, hwkey, ub) ==
    LET keyType == blob[2].v
        deserialized ==
            IF HasKeystorePrefix(blob)
            THEN DeserializeAuthEncryptedBlob(StripPrefix(blob))
            ELSE DeserializeAuthEncryptedBlob(blob)
    IN  IF HasKeystorePrefix(blob) /\ keyType = 1
        THEN [error |-> "KM_ERROR_INVALID_KEY_BLOB", key |-> None, sessions |-> 0]
        ELSE IF HasKeystorePrefix(blob) /\ keyType # 0
        THEN [error |-> "KM_ERROR_INVALID_KEY_BLOB", key |-> None, sessions |-> 0]
        ELSE IF deserialized.error # "KM_ERROR_OK"
        THEN [error |-> deserialized.error, key |-> None, sessions |-> 0]
        ELSE ParseDeserializedKey(deserialized.key, additional_params, allow_ocb,
                                  hwkey, ub)

(***************************************************************************)
(* UpgradeIntegerTag, UpgradeKeyBlob.                                      *)
(***************************************************************************)
\* A variant of UpgradeIntegerTag without the test for a greater stored value.
UpgradeIntegerTagNoDowngradeCheck(tag, value, set, set_changed) ==
    LET index == Find(set, tag) IN
    IF index = 0
    THEN [ok |-> TRUE, set |-> Append(set, Param(tag, value)), set_changed |-> TRUE]
    ELSE IF set[index].val # value
    THEN [ok |-> TRUE, set |-> [set EXCEPT ![index].val = value],
          set_changed |-> TRUE]
    ELSE [ok |-> TRUE, set |-> set, set_changed |-> set_changed]

\* A variant of UpgradeIntegerTag that marks the set changed whenever it
\* stores the value, equal to the stored one or not.
UpgradeIntegerTagAlwaysChanged(tag, value, set, set_changed) ==
    LET index == Find(set, tag) IN
    IF index = 0
    THEN [ok |-> TRUE, set |-> Append(set, Param(tag, value)), set_changed |-> TRUE]
    ELSE IF set[index].val > value
    THEN [ok |-> FALSE, set |-> set, set_changed |-> set_changed]
    ELSE [ok |-> TRUE, set |-> [set EXCEPT ![index].val = value],
          set_changed |-> TRUE]

UpgradeIntegerTag(tag, value, set, set_changed) ==
    LET index == Find(set, tag) IN
    IF index = 0
    THEN [ok |-> TRUE, set |-> Append(set, Param(tag, value)), set_changed |-> TRUE]
    ELSE IF set[index].val > value
    THEN [ok |-> FALSE, set |-> set, set_changed |-> set_changed]
    ELSE IF set[index].val # value
    THEN [ok |-> TRUE, set |-> [set EXCEPT ![index].val = value],
          set_changed |-> TRUE]
    ELSE [ok |-> TRUE, set |-> set, set_changed |-> set_changed]

\* The boot_os_version_ == 0 block: it looks for TAG_OS_VERSION in the key's
\* sw_enforced set.
ZeroVersionOverride(sw_enforced) ==
    LET pos == Find(sw_enforced, "KM_TAG_OS_VERSION") IN
    IF boot_os_version_ = 0 /\ pos # 0 /\ sw_enforced[pos].val # boot_os_version_
    THEN [set |-> [sw_enforced EXCEPT ![pos].val = boot_os_version_],
          set_changed |-> TRUE]
    ELSE [set |-> sw_enforced, set_changed |-> FALSE]

\* The version checks and the re-encryption, on a parsed key.
UpgradeParsedKey(key, upgrade_params, hwkey_create) ==
    LET zero == ZeroVersionOverride(key.sw_enforced)
        ver == UpgradeIntegerTag("KM_TAG_OS_VERSION", boot_os_version_,
                                 key.hw_enforced, zero.set_changed)
        pl == UpgradeIntegerTag("KM_TAG_OS_PATCHLEVEL", boot_os_patchlevel_,
                                ver.set, ver.set_changed)
        made == CreateAuthEncryptedKeyBlob(upgrade_params, key.key_material,
                                           pl.set, zero.set, hwkey_create)
    IN  IF ~ver.ok \/ ~pl.ok
        THEN [error |-> "KM_ERROR_INVALID_ARGUMENT", upgraded_key |-> NoBlob,
              sessions |-> 0]
        ELSE IF ~pl.set_changed
        THEN [error |-> "KM_ERROR_OK", upgraded_key |-> NoBlob, sessions |-> 0]
        ELSE [error |-> made.error, upgraded_key |-> made.blob,
              sessions |-> made.sessions]

UpgradeKeyBlob(key_to_upgrade, upgrade_params, hwkey_parse, ub, hwkey_create) ==
    LET parsed == ParseKeyBlob(key_to_upgrade, upgrade_params, TRUE, hwkey_parse, ub)
        upgraded == UpgradeParsedKey(parsed.key, upgrade_params, hwkey_create)
    IN  IF parsed.error # "KM_ERROR_OK"
        THEN [error |-> parsed.error, upgraded_key |-> NoBlob,
              sessions |-> parsed.sessions]
        ELSE IF parsed.key = None   \* the null factory's call left no key
        THEN [error |-> "TASK_FAULT", upgraded_key |-> NoBlob,
              sessions |-> parsed.sessions]
        ELSE [error |-> upgraded.error, upgraded_key |-> upgraded.upgraded_key,
              sessions |-> parsed.sessions + upgraded.sessions]

(***************************************************************************)
(* SetBootParams, SetSystemVersion (one caller at a time).                 *)
(***************************************************************************)
\* A variant of BootParamsStored: the four arguments are stored as given.
BootParamsStoredAsGiven(verified_boot_key, verified_boot_state, device_locked, verified_boot_hash) ==
    [key |-> verified_boot_key, state |-> verified_boot_state,
     locked |-> device_locked, hash |-> verified_boot_hash]

\* The fields SetBootParams leaves, for a call that passes the latch.
BootParamsStored(verified_boot_key, verified_boot_state, device_locked, verified_boot_hash) ==
    IF verified_boot_state \in {"KM_VERIFIED_BOOT_VERIFIED",
                                "KM_VERIFIED_BOOT_SELF_SIGNED"}
    THEN IF Len(verified_boot_key) # 0
         THEN [key |-> verified_boot_key, state |-> verified_boot_state,
               locked |-> device_locked, hash |-> verified_boot_hash]
         ELSE [key |-> <<>>, state |-> "KM_VERIFIED_BOOT_UNVERIFIED",
               locked |-> FALSE, hash |-> verified_boot_hash]
    ELSE [key |-> <<>>, state |-> verified_boot_state,
          locked |-> FALSE, hash |-> verified_boot_hash]

\* SetBootParams' status: the latch.
SetBootParamsError ==
    IF root_of_trust_set_ THEN "KM_ERROR_ROOT_OF_TRUST_ALREADY_SET" ELSE "KM_ERROR_OK"

\* A variant of SetBootParams without the test of root_of_trust_set_.
SetBootParamsUnlatched(verified_boot_key, verified_boot_state, device_locked, verified_boot_hash) ==
    LET stored == BootParamsStored(verified_boot_key, verified_boot_state,
                                   device_locked, verified_boot_hash) IN
    /\ verified_boot_hash_' = stored.hash
    /\ root_of_trust_set_' = TRUE
    /\ verified_boot_state_' = stored.state
    /\ device_locked_' = stored.locked
    /\ verified_boot_key_' = stored.key

\* SetBootParams as a transition of the root-of-trust fields.
SetBootParams(verified_boot_key, verified_boot_state, device_locked, verified_boot_hash) ==
    IF root_of_trust_set_
    THEN UNCHANGED rot
    ELSE LET stored == BootParamsStored(verified_boot_key, verified_boot_state,
                                        device_locked, verified_boot_hash) IN
         /\ verified_boot_hash_' = stored.hash
         /\ root_of_trust_set_' = TRUE
         /\ verified_boot_state_' = stored.state
         /\ device_locked_' = stored.locked
         /\ verified_boot_key_' = stored.key

\* The KEYMASTER_DEBUG block of SetSystemVersion. The fake root of trust is a
\* 32-byte buffer; four bytes stand for it.
FakeRootOfTrust == <<48, 48, 48, 49>>

SetSystemVersionDebug ==
    IF build.KEYMASTER_DEBUG /\ ~root_of_trust_set_
    THEN SetBootParams(FakeRootOfTrust, "KM_VERIFIED_BOOT_VERIFIED", TRUE, <<>>)
    ELSE UNCHANGED rot

(***************************************************************************)
(* The calls, as actions.                                                  *)
(***************************************************************************)
\* The call counter, which stops at "two or more".
OneMore(n) == IF n < 2 THEN n + 1 ELSE n

\* The open sessions after a call that left k more open ("two or more" again).
StillOpen(n, k) == IF n + k < 2 THEN n + k ELSE 2

\* GetSystemVersion: the two outputs.
GetSystemVersion == <<boot_os_version_, boot_os_patchlevel_>>

\* A variant of SetSystemVersion without the test of version_info_set_.
SetSystemVersionCallUnlatched(os_version, os_patchlevel) ==
    /\ boot_os_version_' = os_version
    /\ boot_os_patchlevel_' = os_patchlevel
    /\ version_info_set_' = TRUE
    /\ SetSystemVersionDebug
    /\ boot_params_calls' = IF build.KEYMASTER_DEBUG /\ ~root_of_trust_set_
                            THEN OneMore(boot_params_calls)
                            ELSE boot_params_calls
    /\ last' = [op |-> "SetSystemVersion", os_version |-> os_version,
                os_patchlevel |-> os_patchlevel, error |-> "KM_ERROR_OK"]
    /\ UNCHANGED <<build, rng, token_key, hwkey_sessions, held, threads>>

SetSystemVersionCall(os_version, os_patchlevel) ==
    /\ IF ~version_info_set_
       THEN /\ boot_os_version_' = os_version
            /\ boot_os_patchlevel_' = os_patchlevel
            /\ version_info_set_' = TRUE
       ELSE UNCHANGED <<boot_os_version_, boot_os_patchlevel_, version_info_set_>>
    /\ SetSystemVersionDebug
    /\ boot_params_calls' = IF build.KEYMASTER_DEBUG /\ ~root_of_trust_set_
                            THEN OneMore(boot_params_calls)
                            ELSE boot_params_calls
    /\ last' = [op |-> "SetSystemVersion", os_version |-> os_version,
                os_patchlevel |-> os_patchlevel, error |-> "KM_ERROR_OK"]
    /\ UNCHANGED <<build, rng, token_key, hwkey_sessions, held, threads>>

SetBootParamsCall(verified_boot_key, verified_boot_state, device_locked, verified_boot_hash) ==
    /\ SetBootParams(verified_boot_key, verified_boot_state, device_locked,
                     verified_boot_hash)
    /\ last' = [op |-> "SetBootParams",
                verified_boot_key |-> verified_boot_key,
                verified_boot_state |-> verified_boot_state,
                device_locked |-> device_locked,
                verified_boot_hash |-> verified_boot_hash,
                error |-> SetBootParamsError,
                before |-> rot]
    /\ boot_params_calls' = OneMore(boot_params_calls)
    /\ UNCHANGED <<build, rng, token_key, hwkey_sessions, boot_os_version_, boot_os_patchlevel_,
                   version_info_set_, held, threads>>

\* The root-of-trust triple the hidden authorizations bind to.
RootOfTrustTriple == <<verified_boot_key_, verified_boot_state_, device_locked_>>

CreateKeyBlobCall(key_description, origin, key_material, set_error, hwkey) ==
    LET r == CreateKeyBlob(key_description, origin, key_material, set_error, hwkey)
    IN  /\ last' = [op |-> "CreateKeyBlob", key_description |-> key_description,
                    key_material |-> key_material, error |-> r.error,
                    blob |-> r.blob, hw_enforced |-> r.hw_enforced,
                    sw_enforced |-> r.sw_enforced]
        /\ held' = IF r.error = "KM_ERROR_OK"
                   THEN [blob |-> r.blob, by |-> "CreateKeyBlob",
                         key_description |-> key_description,
                         key_material |-> key_material,
                         hw_enforced |-> r.hw_enforced,
                         sw_enforced |-> r.sw_enforced,
                         root_of_trust |-> RootOfTrustTriple]
                   ELSE held
        /\ hwkey_sessions' = StillOpen(hwkey_sessions, r.sessions)
        /\ UNCHANGED <<build, rng, token_key, ctx, threads, boot_params_calls>>

\* The caller hands in the blob it holds, behind the km_compat prefixes
\* given by their type bytes (none for <<>>).
RECURSIVE Prefixed(_, _)
Prefixed(types, blob) ==
    IF types = <<>> THEN blob
    ELSE <<Magic, Byte(Head(types))>> \o Prefixed(Tail(types), blob)

ParseKeyBlobCall(types, additional_params, allow_ocb, hwkey, ub) ==
    /\ held # None
    /\ LET blob == Prefixed(types, held.blob)
           r == ParseKeyBlob(blob, additional_params, allow_ocb, hwkey, ub)
       IN  /\ last' = [op |-> "ParseKeyBlob", types |-> types,
                       additional_params |-> additional_params,
                       allow_ocb |-> allow_ocb, hwkey |-> hwkey, ub |-> ub,
                       error |-> r.error, key |-> r.key]
           /\ hwkey_sessions' = StillOpen(hwkey_sessions, r.sessions)
    /\ UNCHANGED <<build, rng, token_key, ctx, held, threads, boot_params_calls>>

UpgradeKeyBlobCall(upgrade_params, hwkey_parse, ub, hwkey_create) ==
    /\ held # None
    /\ LET r == UpgradeKeyBlob(held.blob, upgrade_params, hwkey_parse, ub,
                               hwkey_create)
       IN  /\ last' = [op |-> "UpgradeKeyBlob", key_to_upgrade |-> held.blob,
                       upgrade_params |-> upgrade_params,
                       hwkey_parse |-> hwkey_parse, ub |-> ub,
                       hwkey_create |-> hwkey_create,
                       error |-> r.error, upgraded_key |-> r.upgraded_key]
           \* the caller persists the new blob in place of the old one
           /\ held' = IF r.upgraded_key # NoBlob
                      THEN [blob |-> r.upgraded_key, by |-> "UpgradeKeyBlob",
                            key_description |-> upgrade_params,
                            key_material |-> held.key_material,
                            hw_enforced |-> r.upgraded_key[1].hw_enforced,
                            sw_enforced |-> r.upgraded_key[1].sw_enforced,
                            root_of_trust |-> RootOfTrustTriple]
                      ELSE held
           /\ hwkey_sessions' = StillOpen(hwkey_sessions, r.sessions)
    /\ UNCHANGED <<build, rng, token_key, ctx, threads, boot_params_calls>>

(***************************************************************************)
(* The constructor. The process restarts with a new context; the blobs the *)
(* caller stored outlive it.                                               *)
(***************************************************************************)
Unbound == <<85, 110, 98, 111, 117, 110, 100>>

\* The members the constructor's body does not assign: their initialisers
\* are in the class declaration (trusty_keymaster_context.h). The versions
\* "will be 0 if not set by bootloader" (SetAuthorizations), and the two
\* latches are tested before they are ever assigned.
MemberDefaults ==
    [verified_boot_state_ |-> "KM_VERIFIED_BOOT_UNVERIFIED",
     device_locked_ |-> FALSE,
     verified_boot_hash_ |-> <<>>,
     boot_os_version_ |-> 0,
     boot_os_patchlevel_ |-> 0,
     version_info_set_ |-> FALSE,
     root_of_trust_set_ |-> FALSE,
     auth_token_key_initialized_ |-> FALSE]

\* The constructor's initialiser list; no check was made of the new context.
NoChecks == [checks |-> 0, reseeds |-> 0]

Constructed ==
    /\ verified_boot_key_ = Unbound
    /\ verified_boot_state_ = MemberDefaults.verified_boot_state_
    /\ device_locked_ = MemberDefaults.device_locked_
    /\ verified_boot_hash_ = MemberDefaults.verified_boot_hash_
    /\ boot_os_version_ = MemberDefaults.boot_os_version_
    /\ boot_os_patchlevel_ = MemberDefaults.boot_os_patchlevel_
    /\ version_info_set_ = MemberDefaults.version_info_set_
    /\ root_of_trust_set_ = MemberDefaults.root_of_trust_set_
    /\ rng_initialized_ = FALSE
    /\ calls_since_reseed_ = 0
    /\ rng_history = NoChecks
    /\ auth_token_key_initialized_ = MemberDefaults.auth_token_key_initialized_
    /\ auth_token_key_ = NoBlob

\* The task restarts: the kernel closes the handles of the old one.
Reboot ==
    /\ verified_boot_key_' = Unbound
    /\ verified_boot_state_' = MemberDefaults.verified_boot_state_
    /\ device_locked_' = MemberDefaults.device_locked_
    /\ verified_boot_hash_' = MemberDefaults.verified_boot_hash_
    /\ boot_os_version_' = MemberDefaults.boot_os_version_
    /\ boot_os_patchlevel_' = MemberDefaults.boot_os_patchlevel_
    /\ version_info_set_' = MemberDefaults.version_info_set_
    /\ root_of_trust_set_' = MemberDefaults.root_of_trust_set_
    /\ last' = [op |-> "Constructor"]
    /\ boot_params_calls' = 0
    /\ rng_initialized_' = FALSE
    /\ calls_since_reseed_' = 0
    /\ rng_history' = NoChecks
    /\ hwkey_sessions' = 0
    /\ auth_token_key_initialized_' = MemberDefaults.auth_token_key_initialized_
    /\ auth_token_key_' = NoBlob
    /\ UNCHANGED <<build, held, threads>>

(***************************************************************************)
(* The inputs the calls are tried with.                                    *)
(***************************************************************************)
Builds == [KEYMASTER_DEBUG : BOOLEAN, WITH_HWWSK_SUPPORT : BOOLEAN,
           TEE_FINGERPRINT_AUTH_SUPPORTED : BOOLEAN,
           KEYMASTER_SOFT_ATTESTATION_FALLBACK : BOOLEAN]

ReleaseBuild == [KEYMASTER_DEBUG |-> FALSE, WITH_HWWSK_SUPPORT |-> FALSE,
                 TEE_FINGERPRINT_AUTH_SUPPORTED |-> FALSE,
                 KEYMASTER_SOFT_ATTESTATION_FALLBACK |-> FALSE]

KeyMaterials == {<<170>>, <<187, 204>>}

KeyDescriptions ==
    {<<Param("KM_TAG_ALGORITHM", KM_ALGORITHM_RSA)>>,
     <<Param("KM_TAG_APPLICATION_ID", <<1>>),
       Param("KM_TAG_ALGORITHM", KM_ALGORITHM_EC), Param("KM_TAG_USER_ID", 7),
       Param("KM_TAG_APPLICATION_DATA", <<3>>)>>,
     <<Param("KM_TAG_USER_ID", 7)>>,
     <<Param("KM_TAG_ALGORITHM", 99)>>,   \* a value GetKeyFactory has no case for
     <<Param("KM_TAG_ALGORITHM", KM_ALGORITHM_AES), Param("KM_TAG_NONCE", <<>>)>>}

AdditionalParams ==
    {<<>>,
     <<Param("KM_TAG_APPLICATION_DATA", <<3>>),
       Param("KM_TAG_APPLICATION_ID", <<1>>)>>,
     <<Param("KM_TAG_APPLICATION_ID", <<2>>),
       Param("KM_TAG_APPLICATION_DATA", <<3>>)>>,
     <<Param("KM_TAG_APPLICATION_ID", <<1>>)>>}

SetErrors == {[sw |-> "OK", hw |-> "OK"],
              [sw |-> "ALLOCATION_FAILURE", hw |-> "OK"],
              [sw |-> "OK", hw |-> "ALLOCATION_FAILURE"]}

\* km_compat prefixes the caller leaves on the blob, by type byte
PrefixTypes == {<<>>, <<0>>, <<1>>, <<2>>, <<0, 0>>}

BootKeys == {<<>>, <<75>>}
BootHashes == {<<>>, <<72>>}

\* The boot parameters the codec is exercised under: with the constructor's
\* triple they differ pairwise in the key only, the state only, the lock only.
CodecBootParams ==
    {<<(<<75>>), "KM_VERIFIED_BOOT_VERIFIED", TRUE>>,
     <<(<<75>>), "KM_VERIFIED_BOOT_VERIFIED", FALSE>>,
     <<(<<75>>), "KM_VERIFIED_BOOT_SELF_SIGNED", TRUE>>,
     <<(<<>>), "KM_VERIFIED_BOOT_UNVERIFIED", FALSE>>}

\* One collaborator fails at a time. CreateEnvs: the allocator behind the two
\* output sets, and the hwkey service.
CreateEnvs ==
    {[set_error |-> e, hwkey |-> "ok"] : e \in SetErrors}
    \cup {[set_error |-> [sw |-> "OK", hw |-> "OK"], hwkey |-> h] : h \in HwkeyOutcomes}

\* ParseEnvs: the hwkey service, and what the call through a null factory does.
ParseEnvs ==
    {[hwkey |-> "ok", ub |-> u] : u \in NullCallOutcomes}
    \cup {[hwkey |-> h, ub |-> "TASK_FAULT"] : h \in HwkeyOutcomes}

\* UpgradeEnvs: the same for the parse of an upgrade, and the hwkey service at
\* the re-encryption.
UpgradeEnvs ==
    {[hwkey_parse |-> "ok", ub |-> u, hwkey_create |-> "ok"] :
        u \in {"TASK_FAULT", "KM_ERROR_OK"}}
    \cup {[hwkey_parse |-> "open_fails", ub |-> "TASK_FAULT", hwkey_create |-> "ok"],
          [hwkey_parse |-> "ok", ub |-> "TASK_FAULT", hwkey_create |-> "derive_fails"]}

\* The upgrade params: none, and the application id and data of a description.
UpgradeParams ==
    {<<>>,
     <<Param("KM_TAG_APPLICATION_DATA", <<3>>),
       Param("KM_TAG_APPLICATION_ID", <<1>>)>>}

NoCall == [op |-> "none"]

\* The call returns: the caller takes its status and outputs.
Return ==
    /\ last # NoCall
    /\ last' = NoCall
    /\ UNCHANGED <<build, rng, token_key, hwkey_sessions, ctx, held, threads, boot_params_calls>>

InitWith(builds) ==
    /\ build \in builds
    /\ Constructed
    /\ held = None
    /\ last = NoCall
    /\ threads = <<>>
    /\ boot_params_calls = 0
    /\ hwkey_sessions = 0

(***************************************************************************)
(* Spec: the key-blob codec. Blobs are created and parsed under the boot   *)
(* parameters of several boots, one call at a time.                        *)
(***************************************************************************)
Init == InitWith({ReleaseBuild})

\* The context serves one call at a time.
Idle == last = NoCall

Next ==
    \/ \E b \in CodecBootParams :
          Idle /\ SetBootParamsCall(b[1], b[2], b[3], <<>>)
    \/ \E d \in KeyDescriptions, m \in KeyMaterials, e \in CreateEnvs :
          Idle /\ CreateKeyBlobCall(d, KM_ORIGIN_GENERATED, m, e.set_error, e.hwkey)
    \/ \E t \in PrefixTypes, a \in AdditionalParams, o \in BOOLEAN, e \in ParseEnvs :
          Idle /\ ParseKeyBlobCall(t, a, o, e.hwkey, e.ub)
    \/ Idle /\ Reboot
    \/ Return

Spec == Init /\ [][Next]_vars

(***************************************************************************)
(* SpecUpgrade: blobs are created and upgraded under the system versions   *)
(* of several boots; calls follow one another directly.                    *)
(***************************************************************************)
NextUpgrade ==
    \/ \E v \in 0..MaxOsVersion, p \in 0..MaxOsPatchlevel : SetSystemVersionCall(v, p)
    \/ \E d \in KeyDescriptions :
          CreateKeyBlobCall(d, KM_ORIGIN_GENERATED, <<170>>,
                            [sw |-> "OK", hw |-> "OK"], "ok")
    \/ \E a \in UpgradeParams, e \in UpgradeEnvs :
          UpgradeKeyBlobCall(a, e.hwkey_parse, e.ub, e.hwkey_create)
    \/ Reboot

SpecUpgrade == Init /\ [][NextUpgrade]_vars

(***************************************************************************)
(* SpecBoot: the boot parameters and the system version, in the release    *)
(* and the KEYMASTER_DEBUG build.                                          *)
(***************************************************************************)
InitBoot == InitWith({b \in Builds : /\ ~b.WITH_HWWSK_SUPPORT
                                     /\ ~b.TEE_FINGERPRINT_AUTH_SUPPORTED
                                     /\ ~b.KEYMASTER_SOFT_ATTESTATION_FALLBACK})

NextBoot ==
    \/ \E v \in 0..MaxOsVersion, p \in 0..MaxOsPatchlevel : SetSystemVersionCall(v, p)
    \/ \E k \in BootKeys, s \in VerifiedBootStates, l \in BOOLEAN, h \in BootHashes :
          SetBootParamsCall(k, s, l, h)

SpecBoot == InitBoot /\ [][NextBoot]_vars

(***************************************************************************)
(* SpecAuth: SetAuthorizations on every key description of at most         *)
(* MaxDescLen entries, in the four builds of its two compile-time          *)
(* switches, before and after the system version is set.                   *)
(***************************************************************************)
SetAuthorizationsCall(key_description, origin, set_error) ==
    LET r == SetAuthorizations(key_description, origin, set_error)
    IN  /\ last' = [op |-> "SetAuthorizations",
                    key_description |-> key_description, origin |-> origin,
                    error |-> r.error, hw_enforced |-> r.hw, sw_enforced |-> r.sw]
        /\ UNCHANGED <<build, rng, token_key, hwkey_sessions, ctx, held, threads, boot_params_calls>>

\* Entries of every class of the switch (and one tag the switch does not list).
DescEntries ==
    {Param("KM_TAG_NONCE", <<>>),
     Param("KM_TAG_ATTESTATION_CHALLENGE", <<5>>),
     Param("KM_TAG_ROLLBACK_RESISTANCE", 1),
     Param("KM_TAG_DEVICE_UNIQUE_ATTESTATION", 1),
     Param("KM_TAG_APPLICATION_ID", <<1>>),
     Param("KM_TAG_OS_VERSION", 9),
     Param("KM_TAG_ALGORITHM", KM_ALGORITHM_RSA),
     Param("KM_TAG_STORAGE_KEY", 1),
     Param("KM_TAG_USER_AUTH_TYPE", 7),
     Param("KM_TAG_CREATION_DATETIME", 1000),
     Param("KM_TAG_HARDWARE_TYPE", 1)}

Descriptions(n) == UNION {[1..k -> DescEntries] : k \in 0..n}

\* Entries of the tags that are "set below", with values that are not the
\* context's, next to one hardware-enforced and one keystore-enforced entry.
SetBelowEntries ==
    {Param("KM_TAG_ORIGIN", 3),
     Param("KM_TAG_OS_VERSION", 9),
     Param("KM_TAG_OS_PATCHLEVEL", 8),
     Param("KM_TAG_BOOT_PATCHLEVEL", 6),
     Param("KM_TAG_VENDOR_PATCHLEVEL", 5),
     Param("KM_TAG_ALGORITHM", KM_ALGORITHM_RSA),
     Param("KM_TAG_USER_ID", 7)}

SetBelowDescriptions(n) == UNION {[1..k -> SetBelowEntries] : k \in 0..n}

\* User-auth-type entries with every combination of the password bit, the
\* fingerprint bit and a bit the implementation does not know.
UserAuthEntries == {Param("KM_TAG_USER_AUTH_TYPE", v) : v \in {0, 1, 2, 3, 4, 7}}

UserAuthDescriptions(n) == UNION {[1..k -> UserAuthEntries] : k \in 0..n}

AuthEnvs ==
    {[origin |-> o, set_error |-> [sw |-> "OK", hw |-> "OK"]] :
        o \in {KM_ORIGIN_GENERATED, KM_ORIGIN_IMPORTED}}
    \cup {[origin |-> KM_ORIGIN_GENERATED, set_error |-> e] : e \in SetErrors}

InitAuth == InitWith({b \in Builds : /\ ~b.KEYMASTER_DEBUG
                                     /\ ~b.KEYMASTER_SOFT_ATTESTATION_FALLBACK})

NextAuth ==
    \/ Idle /\ SetSystemVersionCall(MaxOsVersion, MaxOsPatchlevel)
    \/ \E d \in Descriptions(MaxDescLen) \cup SetBelowDescriptions(MaxDescLen)
                    \cup UserAuthDescriptions(MaxDescLen),
          e \in AuthEnvs :
          Idle /\ SetAuthorizationsCall(d, e.origin, e.set_error)
    \/ Return

SpecAuth == InitAuth /\ [][NextAuth]_vars

(***************************************************************************)
(* SpecRace: two callers inside SetBootParams or SetSystemVersion at once. *)
(* Neither function takes a lock and the fields are plain members, so the  *)
(* statements of the two calls interleave. A thread is at the line it      *)
(* executes next.                                                          *)
(***************************************************************************)
Callers == {1, 2}

RaceBootParams ==
    {[key |-> <<75>>, state |-> "KM_VERIFIED_BOOT_VERIFIED", locked |-> TRUE,
      hash |-> <<72>>],
     [key |-> <<76>>, state |-> "KM_VERIFIED_BOOT_SELF_SIGNED", locked |-> FALSE,
      hash |-> <<73>>],
     [key |-> <<>>, state |-> "KM_VERIFIED_BOOT_VERIFIED", locked |-> TRUE,
      hash |-> <<74>>],
     [key |-> <<>>, state |-> "KM_VERIFIED_BOOT_UNVERIFIED", locked |-> FALSE,
      hash |-> <<>>]}

Goto(t, pc) == threads' = [threads EXCEPT ![t].pc = pc]

Finish(t, error) == threads' = [threads EXCEPT ![t].pc = "done", ![t].error = error]

CallSetBootParams(t, args) ==
    /\ threads[t].pc = "idle"
    /\ threads' = [threads EXCEPT ![t] = [pc |-> "L824", op |-> "SetBootParams",
                                          args |-> args, error |-> "none"]]
    /\ boot_params_calls' = OneMore(boot_params_calls)
    /\ UNCHANGED <<build, rng, token_key, hwkey_sessions, ctx, held, last>>

CallSetSystemVersion(t, os_version, os_patchlevel) ==
    /\ threads[t].pc = "idle"
    /\ threads' = [threads EXCEPT ![t] =
                      [pc |-> "L636", op |-> "SetSystemVersion",
                       args |-> [os_version |-> os_version,
                                 os_patchlevel |-> os_patchlevel],
                       error |-> "none"]]
    /\ UNCHANGED <<build, rng, token_key, hwkey_sessions, ctx, held, last, boot_params_calls>>

\* if (root_of_trust_set_) return KM_ERROR_ROOT_OF_TRUST_ALREADY_SET;
L824(t) ==
    /\ threads[t].pc = "L824"
    /\ IF root_of_trust_set_
       THEN Finish(t, "KM_ERROR_ROOT_OF_TRUST_ALREADY_SET")
       ELSE Goto(t, "L827")
    /\ UNCHANGED <<build, rng, token_key, hwkey_sessions, ctx, held, last, boot_params_calls>>

L827(t) ==
    /\ threads[t].pc = "L827"
    /\ verified_boot_hash_' = threads[t].args.hash
    /\ Goto(t, "L828")
    /\ UNCHANGED <<build, rng, token_key, hwkey_sessions, verified_boot_key_, verified_boot_state_, device_locked_,
                   boot_os_version_, boot_os_patchlevel_, version_info_set_,
                   root_of_trust_set_, held, last, boot_params_calls>>

L828(t) ==
    /\ threads[t].pc = "L828"
    /\ root_of_trust_set_' = TRUE
    /\ Goto(t, "L829")
    /\ UNCHANGED <<build, rng, token_key, hwkey_sessions, verified_boot_key_, verified_boot_state_, device_locked_,
                   verified_boot_hash_, boot_os_version_, boot_os_patchlevel_,
                   version_info_set_, held, last, boot_params_calls>>

L829(t) ==
    /\ threads[t].pc = "L829"
    /\ verified_boot_state_' = threads[t].args.state
    /\ Goto(t, "L830")
    /\ UNCHANGED <<build, rng, token_key, hwkey_sessions, verified_boot_key_, device_locked_, verified_boot_hash_,
                   boot_os_version_, boot_os_patchlevel_, version_info_set_,
                   root_of_trust_set_, held, last, boot_params_calls>>

L830(t) ==
    /\ threads[t].pc = "L830"
    /\ device_locked_' = threads[t].args.locked
    /\ Goto(t, "L831")
    /\ UNCHANGED <<build, rng, token_key, hwkey_sessions, verified_boot_key_, verified_boot_state_,
                   verified_boot_hash_, boot_os_version_, boot_os_patchlevel_,
                   version_info_set_, root_of_trust_set_, held, last, boot_params_calls>>

\* verified_boot_key_.Reinitialize("", 0), then the test of the two ifs
L831(t) ==
    /\ threads[t].pc = "L831"
    /\ verified_boot_key_' = <<>>
    /\ Goto(t, IF threads[t].args.state \in {"KM_VERIFIED_BOOT_VERIFIED",
                                             "KM_VERIFIED_BOOT_SELF_SIGNED"}
               THEN IF Len(threads[t].args.key) # 0 THEN "L837" ELSE "L840"
               ELSE "L845")
    /\ UNCHANGED <<build, rng, token_key, hwkey_sessions, verified_boot_state_, device_locked_,
                   verified_boot_hash_, boot_os_version_, boot_os_patchlevel_,
                   version_info_set_, root_of_trust_set_, held, last, boot_params_calls>>

L837(t) ==
    /\ threads[t].pc = "L837"
    /\ verified_boot_key_' = threads[t].args.key
    /\ Finish(t, "KM_ERROR_OK")
    /\ UNCHANGED <<build, rng, token_key, hwkey_sessions, verified_boot_state_, device_locked_,
                   verified_boot_hash_, boot_os_version_, boot_os_patchlevel_,
                   version_info_set_, root_of_trust_set_, held, last, boot_params_calls>>

L840(t) ==
    /\ threads[t].pc = "L840"
    /\ verified_boot_state_' = "KM_VERIFIED_BOOT_UNVERIFIED"
    /\ Goto(t, "L841")
    /\ UNCHANGED <<build, rng, token_key, hwkey_sessions, verified_boot_key_, device_locked_, verified_boot_hash_,
                   boot_os_version_, boot_os_patchlevel_, version_info_set_,
                   root_of_trust_set_, held, last, boot_params_calls>>

\* device_locked_ = false, in either branch, and the return
L841(t) ==
    /\ threads[t].pc \in {"L841", "L845"}
    /\ device_locked_' = FALSE
    /\ Finish(t, "KM_ERROR_OK")
    /\ UNCHANGED <<build, rng, token_key, hwkey_sessions, verified_boot_key_, verified_boot_state_,
                   verified_boot_hash_, boot_os_version_, boot_os_patchlevel_,
                   version_info_set_, root_of_trust_set_, held, last, boot_params_calls>>

\* if (!version_info_set_)
L636(t) ==
    /\ threads[t].pc = "L636"
    /\ IF version_info_set_ THEN Finish(t, "KM_ERROR_OK") ELSE Goto(t, "L640")
    /\ UNCHANGED <<build, rng, token_key, hwkey_sessions, ctx, held, last, boot_params_calls>>

L640(t) ==
    /\ threads[t].pc = "L640"
    /\ boot_os_version_' = threads[t].args.os_version
    /\ Goto(t, "L641")
    /\ UNCHANGED <<build, rng, token_key, hwkey_sessions, rot, boot_os_patchlevel_, version_info_set_, held, last, boot_params_calls>>

L641(t) ==
    /\ threads[t].pc = "L641"
    /\ boot_os_patchlevel_' = threads[t].args.os_patchlevel
    /\ Goto(t, "L642")
    /\ UNCHANGED <<build, rng, token_key, hwkey_sessions, rot, boot_os_version_, version_info_set_, held, last, boot_params_calls>>

L642(t) ==
    /\ threads[t].pc = "L642"
    /\ version_info_set_' = TRUE
    /\ Finish(t, "KM_ERROR_OK")
    /\ UNCHANGED <<build, rng, token_key, hwkey_sessions, rot, boot_os_version_, boot_os_patchlevel_, held, last, boot_params_calls>>

InitRace ==
    /\ build = ReleaseBuild
    /\ Constructed
    /\ held = None
    /\ last = NoCall
    /\ threads = [t \in Callers |-> [pc |-> "idle", op |-> "none",
                                     args |-> None, error |-> "none"]]
    /\ boot_params_calls = 0
    /\ hwkey_sessions = 0

NextRace ==
    \E t \in Callers :
        \/ \E args \in RaceBootParams : CallSetBootParams(t, args)
        \/ \E v \in 0..MaxOsVersion, p \in 0..MaxOsPatchlevel :
              CallSetSystemVersion(t, v, p)
        \/ L824(t) \/ L827(t) \/ L828(t) \/ L829(t) \/ L830(t) \/ L831(t)
        \/ L837(t) \/ L840(t) \/ L841(t)
        \/ L636(t) \/ L640(t) \/ L641(t) \/ L642(t)

SpecRace == InitRace /\ [][NextRace]_vars

(***************************************************************************)
(* The RNG gate: SeedRngIfNeeded, ShouldReseedRng, ReseedRng.              *)
(***************************************************************************)
kCallsBetweenRngReseeds == 32
kRngReseedSize == 64

MaxChecks == 65         \* SeedRngIfNeeded is called on a counter below MaxChecks

\* What the trusty_rng service does during one ReseedRng.
RngOutcomes == {"ok", "hw_rand_fails", "add_entropy_fails"}

\* A variant of ShouldReseedRng that tests the counter before it counts the
\* check (calls_since_reseed_++).
ShouldReseedRngPostIncrement ==
    IF ~rng_initialized_
    THEN [reseed |-> TRUE, calls |-> calls_since_reseed_]
    ELSE [reseed |-> calls_since_reseed_ % kCallsBetweenRngReseeds = 0,
          calls |-> calls_since_reseed_ + 1]

\* ShouldReseedRng: the answer, and the counter it leaves.
ShouldReseedRng ==
    IF ~rng_initialized_
    THEN [reseed |-> TRUE, calls |-> calls_since_reseed_]
    ELSE [reseed |-> (calls_since_reseed_ + 1) % kCallsBetweenRngReseeds = 0,
          calls |-> calls_since_reseed_ + 1]

\* A variant of ReseedRng that marks the RNG seeded before it reads the
\* hardware.
ReseedRngFlagFirst(trusty_rng) ==
    IF trusty_rng = "hw_rand_fails"
    THEN [result |-> FALSE, entropy |-> 0, rng_initialized_ |-> TRUE]
    ELSE [result |-> TRUE,
          entropy |-> IF trusty_rng = "ok" THEN kRngReseedSize ELSE 0,
          rng_initialized_ |-> TRUE]

\* ReseedRng: its result, the bytes of entropy the RNG took, and the flag it
\* leaves. The status of trusty_rng_add_entropy is not looked at.
ReseedRng(trusty_rng) ==
    IF trusty_rng = "hw_rand_fails"
    THEN [result |-> FALSE, entropy |-> 0, rng_initialized_ |-> rng_initialized_]
    ELSE [result |-> TRUE,
          entropy |-> IF trusty_rng = "ok" THEN kRngReseedSize ELSE 0,
          rng_initialized_ |-> TRUE]

\* The checks made of a seeded RNG so far, and the reseeds they asked for.
Counted(should) ==
    IF rng_initialized_
    THEN [checks |-> rng_history.checks + 1,
          reseeds |-> rng_history.reseeds + (IF should.reseed THEN 1 ELSE 0)]
    ELSE rng_history

\* History: how many checks ago the hardware read of a periodic reseed (one
\* asked of a seeded RNG) last failed, counting the check being made; 0 when
\* none has failed.
SinceFailed ==
    IF last.op # "SeedRngIfNeeded" THEN 0
    ELSE IF last.initialized_before /\ last.reseed
            /\ last.trusty_rng = "hw_rand_fails" THEN 1
    ELSE IF last.since_failed > 0 THEN last.since_failed + 1
    ELSE 0

\* A variant of SeedRngIfNeeded that takes the check back out of the counter
\* when the reseed it asked for fails.
SeedRngIfNeededCallRolledBack(trusty_rng) ==
    LET should == ShouldReseedRng
        reseeded == ReseedRng(trusty_rng)
        initialized == IF should.reseed THEN reseeded.rng_initialized_
                       ELSE rng_initialized_
    IN  /\ calls_since_reseed_ < MaxChecks
        /\ calls_since_reseed_' = IF should.reseed /\ ~reseeded.result
                                  THEN calls_since_reseed_ ELSE should.calls
        /\ rng_initialized_' = initialized
        /\ rng_history' = Counted(should)
        /\ last' = [op |-> "SeedRngIfNeeded", trusty_rng |-> trusty_rng,
                    initialized_before |-> rng_initialized_,
                    reseed |-> should.reseed,
                    entropy |-> IF should.reseed THEN reseeded.entropy ELSE 0,
                    result |-> initialized,
                    since_failed |-> SinceFailed]
        /\ UNCHANGED <<build, token_key, ctx, held, threads, boot_params_calls,
                       hwkey_sessions>>

SeedRngIfNeededCall(trusty_rng) ==
    LET should == ShouldReseedRng
        reseeded == ReseedRng(trusty_rng)
        initialized == IF should.reseed THEN reseeded.rng_initialized_
                       ELSE rng_initialized_
    IN  /\ calls_since_reseed_ < MaxChecks
        /\ calls_since_reseed_' = should.calls
        /\ rng_initialized_' = initialized
        /\ rng_history' = Counted(should)
        /\ last' = [op |-> "SeedRngIfNeeded", trusty_rng |-> trusty_rng,
                    initialized_before |-> rng_initialized_,
                    reseed |-> should.reseed,
                    entropy |-> IF should.reseed THEN reseeded.entropy ELSE 0,
                    result |-> initialized,
                    since_failed |-> SinceFailed]
        /\ UNCHANGED <<build, token_key, ctx, held, threads, boot_params_calls,
                       hwkey_sessions>>

(***************************************************************************)
(* SpecRng: SeedRngIfNeeded, one check after another, from the             *)
(* constructor on, whatever the trusty_rng service does.                   *)
(***************************************************************************)
NextRng == \E r \in RngOutcomes : SeedRngIfNeededCall(r)

SpecRng == Init /\ [][NextRng]_vars

(***************************************************************************)
(* SpecRngRace: two callers inside SeedRngIfNeeded at once. The function   *)
(* takes no lock and ++calls_since_reseed_ is a load, an addition and a    *)
(* store of a plain member, so the statements of the two checks            *)
(* interleave. A thread is at the line it executes next, and keeps the     *)
(* value it loaded.                                                        *)
(***************************************************************************)
MaxRaceChecks == 34     \* checks of a seeded RNG the callers start

CallSeedRngIfNeeded(t) ==
    /\ threads[t].pc = "idle"
    /\ rng_history.checks < MaxRaceChecks
    /\ Goto(t, "L544")
    /\ UNCHANGED <<build, rng, token_key, hwkey_sessions, ctx, held, last, boot_params_calls>>

\* if (!rng_initialized_) return true;
L544(t) ==
    /\ threads[t].pc = "L544"
    /\ IF rng_initialized_
       THEN /\ Goto(t, "L549")
            /\ rng_history' = [rng_history EXCEPT !.checks = @ + 1]
       ELSE /\ Goto(t, "L539")
            /\ UNCHANGED rng_history
    /\ UNCHANGED <<build, token_key, rng_initialized_, calls_since_reseed_, hwkey_sessions,
                   ctx, held, last, boot_params_calls>>

\* ++calls_since_reseed_: the load
L549Load(t) ==
    /\ threads[t].pc = "L549"
    /\ threads' = [threads EXCEPT ![t].pc = "L549_store",
                                  ![t].calls = calls_since_reseed_]
    /\ UNCHANGED <<build, rng, token_key, hwkey_sessions, ctx, held, last, boot_params_calls>>

\* ++calls_since_reseed_: the store, and the test of the new value
L549Store(t) ==
    LET calls == threads[t].calls + 1
        reseed == calls % kCallsBetweenRngReseeds = 0
    IN  /\ threads[t].pc = "L549_store"
        /\ calls_since_reseed_' = calls
        /\ Goto(t, IF reseed THEN "L539" ELSE "L540")
        /\ rng_history' = [rng_history EXCEPT
                              !.reseeds = @ + (IF reseed THEN 1 ELSE 0)]
        /\ UNCHANGED <<build, token_key, rng_initialized_, hwkey_sessions, ctx, held, last,
                       boot_params_calls>>

\* ReseedRng()
L539(t, trusty_rng) ==
    /\ threads[t].pc = "L539"
    /\ rng_initialized_' = ReseedRng(trusty_rng).rng_initialized_
    /\ Goto(t, "L540")
    /\ UNCHANGED <<build, token_key, calls_since_reseed_, rng_history, hwkey_sessions, ctx,
                   held, last, boot_params_calls>>

\* return rng_initialized_;
L540(t) ==
    /\ threads[t].pc = "L540"
    /\ threads' = [threads EXCEPT ![t].pc = "idle", ![t].result = rng_initialized_]
    /\ UNCHANGED <<build, rng, token_key, hwkey_sessions, ctx, held, last, boot_params_calls>>

InitRngRace ==
    /\ build = ReleaseBuild
    /\ Constructed
    /\ held = None
    /\ last = NoCall
    /\ threads = [t \in Callers |-> [pc |-> "idle", calls |-> 0, result |-> FALSE]]
    /\ boot_params_calls = 0
    /\ hwkey_sessions = 0

NextRngRace ==
    \E t \in Callers :
        \/ CallSeedRngIfNeeded(t)
        \/ L544(t) \/ L549Load(t) \/ L549Store(t)
        \/ \E r \in {"ok", "hw_rand_fails"} : L539(t, r)
        \/ L540(t)

SpecRngRace == InitRngRace /\ [][NextRngRace]_vars

(***************************************************************************)
(* Attestation: GetAttestationKey, GetAttestationChain,                    *)
(* GenerateAttestation, GenerateSelfSignedCertificate. Secure storage, the *)
(* bundled software key and chain (soft_attestation_cert.h) and the        *)
(* certificate generators are collaborators: what they hold and how they   *)
(* answer is given with the call.                                          *)
(***************************************************************************)
\* A variant of AttestationKeySlot with the two slots exchanged.
AttestationKeySlotSwapped(algorithm) ==
    CASE algorithm = KM_ALGORITHM_RSA -> "kEcdsa"
      [] algorithm = KM_ALGORITHM_EC -> "kRsa"
      [] OTHER -> "none"

\* The slot of the switch; "none" in the default case, which returns.
AttestationKeySlot(algorithm) ==
    CASE algorithm = KM_ALGORITHM_RSA -> "kRsa"
      [] algorithm = KM_ALGORITHM_EC -> "kEcdsa"
      [] OTHER -> "none"

\* Secure storage during one call: no session (get_instance() is null), a
\* failed read, a read that succeeds, and for the chain a read that succeeds
\* with zero entries.
StorageOutcomes == {"no_session", "read_fails", "ok", "ok_empty"}

\* The bundled material during one call: there, missing for the algorithm,
\* or there while the copy of the key cannot be allocated.
SoftOutcomes == {"ok", "missing", "copy_fails"}

\* ReadKeyFromStorage(key_slot, error)
ReadKeyFromStorage(key_slot, storage) ==
    IF storage = "read_fails"
    THEN [error |-> "KM_ERROR_UNKNOWN_ERROR", key |-> NoBlob]
    ELSE [error |-> "KM_ERROR_OK",
          key |-> IF storage = "ok"
                  THEN <<[k |-> "provisioned_key", slot |-> key_slot]>>
                  ELSE NoBlob]

\* ReadCertChainFromStorage(key_slot, &chain)
ReadCertChainFromStorage(key_slot, storage) ==
    IF storage = "read_fails"
    THEN [error |-> "KM_ERROR_UNKNOWN_ERROR", chain |-> <<>>]
    ELSE [error |-> "KM_ERROR_OK",
          chain |-> IF storage = "ok"
                    THEN <<[k |-> "provisioned_cert", slot |-> key_slot]>>
                    ELSE <<>>]

\* getAttestationKey(algorithm, error), getAttestationChain(algorithm, error)
\* of soft_attestation_cert.h
SoftAttestationKey(algorithm, soft) ==
    IF soft = "missing"
    THEN [error |-> "KM_ERROR_UNSUPPORTED_ALGORITHM", key |-> NoBlob]
    ELSE [error |-> "KM_ERROR_OK",
          key |-> <<[k |-> "test_key", algorithm |-> algorithm]>>]

SoftAttestationChain(algorithm, soft) ==
    IF soft = "missing"
    THEN [error |-> "KM_ERROR_UNSUPPORTED_ALGORITHM", chain |-> <<>>]
    ELSE [error |-> "KM_ERROR_OK",
          chain |-> <<[k |-> "test_cert", algorithm |-> algorithm]>>]

\* The #if KEYMASTER_SOFT_ATTESTATION_FALLBACK block of GetAttestationKey.
KeyFallback(algorithm, read, soft) ==
    LET key == SoftAttestationKey(algorithm, soft) IN
    IF read.error = "KM_ERROR_OK"
    THEN [error |-> read.error, key |-> read.key, soft |-> "unused"]
    ELSE IF key.error # "KM_ERROR_OK"
    THEN [error |-> key.error, key |-> NoBlob, soft |-> "asked"]
    ELSE IF soft = "copy_fails"
    THEN [error |-> "KM_ERROR_MEMORY_ALLOCATION_FAILED", key |-> NoBlob,
          soft |-> "asked"]
    ELSE [error |-> "KM_ERROR_OK", key |-> key.key, soft |-> "asked"]

\* A variant of KeyFallback that is taken whatever the build.
GetAttestationKeyAlwaysFallback(algorithm, storage, soft) ==
    LET key_slot == AttestationKeySlot(algorithm)
        read == ReadKeyFromStorage(key_slot, storage)
        fallback == KeyFallback(algorithm, read, soft)
    IN  IF key_slot = "none"
        THEN [error |-> "KM_ERROR_UNSUPPORTED_ALGORITHM", key |-> NoBlob,
              read_slot |-> "none", soft |-> "unused"]
        ELSE IF storage = "no_session"
        THEN [error |-> "KM_ERROR_SECURE_HW_COMMUNICATION_FAILED", key |-> NoBlob,
              read_slot |-> "none", soft |-> "unused"]
        ELSE [error |-> fallback.error, key |-> fallback.key,
              read_slot |-> key_slot, soft |-> fallback.soft]

\* GetAttestationKey: the status, the key, the slot read from storage ("none"
\* if storage was not read) and whether the bundled key was asked for.
GetAttestationKey(algorithm, storage, soft) ==
    LET key_slot == AttestationKeySlot(algorithm)
        read == ReadKeyFromStorage(key_slot, storage)
        fallback == KeyFallback(algorithm, read, soft)
    IN  IF key_slot = "none"
        THEN [error |-> "KM_ERROR_UNSUPPORTED_ALGORITHM", key |-> NoBlob,
              read_slot |-> "none", soft |-> "unused"]
        ELSE IF storage = "no_session"
        THEN [error |-> "KM_ERROR_SECURE_HW_COMMUNICATION_FAILED", key |-> NoBlob,
              read_slot |-> "none", soft |-> "unused"]
        ELSE IF build.KEYMASTER_SOFT_ATTESTATION_FALLBACK
        THEN [error |-> fallback.error, key |-> fallback.key,
              read_slot |-> key_slot, soft |-> fallback.soft]
        ELSE [error |-> read.error, key |-> read.key,
              read_slot |-> key_slot, soft |-> "unused"]

\* GetAttestationChain, likewise.
GetAttestationChain(algorithm, storage, soft) ==
    LET key_slot == AttestationKeySlot(algorithm)
        read == IF storage = "no_session"
                THEN [error |-> "KM_ERROR_SECURE_HW_COMMUNICATION_FAILED",
                      chain |-> <<>>]
                ELSE ReadCertChainFromStorage(key_slot, storage)
        read_slot == IF storage = "no_session" THEN "none" ELSE key_slot
        test == SoftAttestationChain(algorithm, soft)
    IN  IF key_slot = "none"
        THEN [error |-> "KM_ERROR_UNSUPPORTED_ALGORITHM", chain |-> <<>>,
              read_slot |-> "none", soft |-> "unused"]
        ELSE IF /\ build.KEYMASTER_SOFT_ATTESTATION_FALLBACK
                /\ (read.error # "KM_ERROR_OK" \/ Len(read.chain) = 0)
        THEN [error |-> test.error, chain |-> test.chain,
              read_slot |-> read_slot, soft |-> "asked"]
        ELSE [error |-> read.error, chain |-> read.chain,
              read_slot |-> read_slot, soft |-> "unused"]

\* What the certificate generator and the AttestKeyInfo constructor do
\* during one call.
GeneratorOutcomes == {"ok", "attest_key_fails", "generator_fails"}

Certificate(authorizations, by) == <<[k |-> "cert", of |-> authorizations, by |-> by]>>

\* A variant of the algorithm test of the two Generate functions, which lets
\* every key with an algorithm through.
AsymmetricAlgorithmAny(key_algorithm) == TRUE

\* key_algorithm is KM_ALGORITHM_RSA or KM_ALGORITHM_EC
AsymmetricAlgorithm(key_algorithm) ==
    key_algorithm \in {KM_ALGORITHM_RSA, KM_ALGORITHM_EC}

\* GenerateAttestation: the status, the chain, and whether
\* generate_attestation was called. authorizations are the target key's.
GenerateAttestation(authorizations, outcome) ==
    IF ~HasTagValue(authorizations, "KM_TAG_ALGORITHM")
    THEN [error |-> "KM_ERROR_UNKNOWN_ERROR", chain |-> <<>>, generator |-> "unused"]
    ELSE IF ~AsymmetricAlgorithm(GetTagValue(authorizations, "KM_TAG_ALGORITHM"))
    THEN [error |-> "KM_ERROR_INCOMPATIBLE_ALGORITHM", chain |-> <<>>,
          generator |-> "unused"]
    ELSE IF outcome = "attest_key_fails"
    THEN [error |-> "KM_ERROR_INVALID_ARGUMENT", chain |-> <<>>,
          generator |-> "unused"]
    ELSE IF outcome = "generator_fails"
    THEN [error |-> "KM_ERROR_UNKNOWN_ERROR", chain |-> <<>>, generator |-> "called"]
    ELSE [error |-> "KM_ERROR_OK",
          chain |-> Certificate(authorizations, "generate_attestation"),
          generator |-> "called"]

\* GenerateSelfSignedCertificate, likewise; it makes no AttestKeyInfo.
GenerateSelfSignedCertificate(authorizations, fake_signature, outcome) ==
    IF ~HasTagValue(authorizations, "KM_TAG_ALGORITHM")
    THEN [error |-> "KM_ERROR_UNKNOWN_ERROR", chain |-> <<>>, generator |-> "unused"]
    ELSE IF ~AsymmetricAlgorithm(GetTagValue(authorizations, "KM_TAG_ALGORITHM"))
    THEN [error |-> "KM_ERROR_INCOMPATIBLE_ALGORITHM", chain |-> <<>>,
          generator |-> "unused"]
    ELSE IF outcome = "generator_fails"
    THEN [error |-> "KM_ERROR_UNKNOWN_ERROR", chain |-> <<>>, generator |-> "called"]
    ELSE [error |-> "KM_ERROR_OK",
          chain |-> Certificate(authorizations,
                                IF fake_signature THEN "fake_signature"
                                ELSE "generate_self_signed_cert"),
          generator |-> "called"]

GetAttestationKeyCall(algorithm, storage, soft) ==
    LET r == GetAttestationKey(algorithm, storage, soft)
    IN  /\ last' = [op |-> "GetAttestationKey", algorithm |-> algorithm,
                    storage |-> storage, error |-> r.error, result |-> r.key,
                    read_slot |-> r.read_slot, soft |-> r.soft]
        /\ UNCHANGED <<build, rng, token_key, hwkey_sessions, ctx, held, threads, boot_params_calls>>

GetAttestationChainCall(algorithm, storage, soft) ==
    LET r == GetAttestationChain(algorithm, storage, soft)
    IN  /\ last' = [op |-> "GetAttestationChain", algorithm |-> algorithm,
                    storage |-> storage, error |-> r.error, result |-> r.chain,
                    read_slot |-> r.read_slot, soft |-> r.soft]
        /\ UNCHANGED <<build, rng, token_key, hwkey_sessions, ctx, held, threads, boot_params_calls>>

GenerateAttestationCall(authorizations, outcome) ==
    LET r == GenerateAttestation(authorizations, outcome)
    IN  /\ last' = [op |-> "GenerateAttestation", authorizations |-> authorizations,
                    error |-> r.error, result |-> r.chain,
                    generator |-> r.generator]
        /\ UNCHANGED <<build, rng, token_key, hwkey_sessions, ctx, held, threads, boot_params_calls>>

GenerateSelfSignedCertificateCall(authorizations, fake_signature, outcome) ==
    LET r == GenerateSelfSignedCertificate(authorizations, fake_signature, outcome)
    IN  /\ last' = [op |-> "GenerateSelfSignedCertificate",
                    authorizations |-> authorizations,
                    error |-> r.error, result |-> r.chain,
                    generator |-> r.generator]
        /\ UNCHANGED <<build, rng, token_key, hwkey_sessions, ctx, held, threads, boot_params_calls>>

\* Every algorithm GetKeyFactory knows, and one it does not.
Algorithms ==
    {KM_ALGORITHM_RSA, KM_ALGORITHM_EC, KM_ALGORITHM_AES, KM_ALGORITHM_TRIPLE_DES,
     KM_ALGORITHM_HMAC, 99}

\* The authorizations of the target keys: of every algorithm, alone and
\* behind another entry, and without an algorithm.
TargetKeys ==
    {<<Param("KM_TAG_ALGORITHM", a)>> : a \in Algorithms}
    \cup {<<Param("KM_TAG_USER_ID", 7), Param("KM_TAG_ALGORITHM", a)>> :
            a \in Algorithms}
    \cup {<<>>, <<Param("KM_TAG_USER_ID", 7)>>}

(***************************************************************************)
(* SpecAttest: the four attestation calls, in a build with and a build     *)
(* without KEYMASTER_SOFT_ATTESTATION_FALLBACK.                            *)
(***************************************************************************)
InitAttest == InitWith({b \in Builds : /\ ~b.KEYMASTER_DEBUG
                                       /\ ~b.WITH_HWWSK_SUPPORT
                                       /\ ~b.TEE_FINGERPRINT_AUTH_SUPPORTED})

NextAttest ==
    \/ \E a \in Algorithms, s \in StorageOutcomes \ {"ok_empty"}, f \in SoftOutcomes :
          GetAttestationKeyCall(a, s, f)
    \/ \E a \in Algorithms, s \in StorageOutcomes, f \in SoftOutcomes \ {"copy_fails"} :
          GetAttestationChainCall(a, s, f)
    \/ \E k \in TargetKeys, g \in GeneratorOutcomes : GenerateAttestationCall(k, g)
    \/ \E k \in TargetKeys, fake \in BOOLEAN,
          g \in GeneratorOutcomes \ {"attest_key_fails"} :
          GenerateSelfSignedCertificateCall(k, fake, g)

SpecAttest == InitAttest /\ [][NextAttest]_vars

(***************************************************************************)
(* UnwrapKey. The wrapped-key container, RSA-OAEP and AES-GCM are          *)
(* symbolic: a transit key opens only under the wrapping key it was        *)
(* encrypted to, a secure key only under the transport key, the nonce and  *)
(* the associated data it was sealed with. Bytes are two bits wide.        *)
(***************************************************************************)
KM_PURPOSE_WRAP == 5
KM_DIGEST_SHA_2_256 == 4
KM_PAD_RSA_OAEP == 2

\* AuthorizationSet::Contains(tag, value)
Contains(set, tag, value) == \E i \in 1..Len(set) : set[i] = Param(tag, value)

\* a ^ b on one byte, and on two buffers of one length
XorByte(a, b) == ((a + b) % 2) + 2 * (((a \div 2) + (b \div 2)) % 2)
XorBytes(x, y) == [i \in 1..Len(x) |-> XorByte(x[i], y[i])]

\* The steps of UnwrapKey, by the order of their first statement.
UnwrapSteps ==
    <<"ParseKeyBlob", "stored_purpose", "stored_digest", "stored_padding",
      "params_digest", "params_padding", "parse_wrapped_key",
      "decrypt_transit_key", "mask_transit_key", "aes_gcm_decrypt">>

\* What a wrapping producer sends: the transit key encrypted to the wrapping
\* key, the key material sealed under the transport key.
WrappedKey(iv, to, transit_key, secure_key, aes_key, tag, params, format, description) ==
    [k |-> "wrapped_key", iv |-> iv,
     transit_key |-> [to |-> to, plain |-> transit_key],
     secure_key |-> [sealed |-> secure_key, key |-> aes_key, nonce |-> iv,
                     aad |-> description],
     tag |-> tag, params |-> params, format |-> format,
     description |-> description]

\* parse_wrapped_key: on success the parameters and the format go to the
\* caller's two outputs, the rest to locals.
ParseWrappedKey(wrapped_key_blob) ==
    IF wrapped_key_blob.k = "wrapped_key"
    THEN [error |-> "KM_ERROR_OK", container |-> wrapped_key_blob]
    ELSE [error |-> "KM_ERROR_INVALID_ARGUMENT", container |-> None]

\* The RSA decrypt operation on the transit key: factory, CreateOperation,
\* Begin, the input buffer, Finish.
DecryptTransitKey(wrapping_key, transit_key, fault) ==
    IF wrapping_key.factory # "rsa_factory_"   \* no decrypt operation factory
    THEN [error |-> "KM_ERROR_UNKNOWN_ERROR", output |-> <<>>]
    ELSE IF fault = "rsa_begin_fails"
    THEN [error |-> "KM_ERROR_UNSUPPORTED_DIGEST", output |-> <<>>]
    ELSE IF fault = "input_alloc_fails"
    THEN [error |-> "KM_ERROR_MEMORY_ALLOCATION_FAILED", output |-> <<>>]
    ELSE IF transit_key.to # wrapping_key.key_material
    THEN [error |-> "KM_ERROR_UNKNOWN_ERROR", output |-> <<>>]
    ELSE [error |-> "KM_ERROR_OK", output |-> transit_key.plain]

\* The AES-GCM decrypt operation: LoadKey, CreateOperation, Begin, one Update
\* over the secure key and the tag with the description as associated data,
\* one Finish.
AesGcmDecrypt(transport_key, container, fault) ==
    IF fault = "aes_load_fails"
    THEN [error |-> "KM_ERROR_UNSUPPORTED_KEY_SIZE", plaintext |-> <<>>]
    ELSE IF \/ container.secure_key.key # transport_key
            \/ container.secure_key.nonce # container.iv
            \/ container.secure_key.aad # container.description
            \/ container.tag # "tag"
    THEN [error |-> "KM_ERROR_VERIFICATION_FAILED", plaintext |-> <<>>]
    ELSE [error |-> "KM_ERROR_OK", plaintext |-> container.secure_key.sealed]

\* The objects behind the three output pointers, as the caller made them.
FreshOutputs ==
    [wrapped_key_params |-> <<>>, wrapped_key_format |-> "unset",
     wrapped_key_material |-> NoBlob]

\* A variant of the authorization checks: the caller's digest is tested
\* before the stored authorizations.
CheckAuthorizationsParamsFirst(stored, wrapping_key_params) ==
    IF ~Contains(wrapping_key_params, "KM_TAG_DIGEST", KM_DIGEST_SHA_2_256)
    THEN [error |-> "KM_ERROR_INCOMPATIBLE_DIGEST", step |-> "params_digest"]
    ELSE IF ~Contains(stored, "KM_TAG_PURPOSE", KM_PURPOSE_WRAP)
    THEN [error |-> "KM_ERROR_INCOMPATIBLE_PURPOSE", step |-> "stored_purpose"]
    ELSE IF ~Contains(stored, "KM_TAG_DIGEST", KM_DIGEST_SHA_2_256)
    THEN [error |-> "KM_ERROR_INCOMPATIBLE_DIGEST", step |-> "stored_digest"]
    ELSE IF ~Contains(stored, "KM_TAG_PADDING", KM_PAD_RSA_OAEP)
    THEN [error |-> "KM_ERROR_INCOMPATIBLE_PADDING_MODE", step |-> "stored_padding"]
    ELSE IF ~Contains(wrapping_key_params, "KM_TAG_PADDING", KM_PAD_RSA_OAEP)
    THEN [error |-> "KM_ERROR_INCOMPATIBLE_PADDING_MODE", step |-> "params_padding"]
    ELSE [error |-> "KM_ERROR_OK", step |-> "params_padding"]

\* A variant of the authorization checks without the test of the purpose.
CheckAuthorizationsAnyPurpose(stored, wrapping_key_params) ==
    IF ~Contains(stored, "KM_TAG_DIGEST", KM_DIGEST_SHA_2_256)
    THEN [error |-> "KM_ERROR_INCOMPATIBLE_DIGEST", step |-> "stored_digest"]
    ELSE IF ~Contains(stored, "KM_TAG_PADDING", KM_PAD_RSA_OAEP)
    THEN [error |-> "KM_ERROR_INCOMPATIBLE_PADDING_MODE", step |-> "stored_padding"]
    ELSE IF ~Contains(wrapping_key_params, "KM_TAG_DIGEST", KM_DIGEST_SHA_2_256)
    THEN [error |-> "KM_ERROR_INCOMPATIBLE_DIGEST", step |-> "params_digest"]
    ELSE IF ~Contains(wrapping_key_params, "KM_TAG_PADDING", KM_PAD_RSA_OAEP)
    THEN [error |-> "KM_ERROR_INCOMPATIBLE_PADDING_MODE", step |-> "params_padding"]
    ELSE [error |-> "KM_ERROR_OK", step |-> "params_padding"]

\* The five checks on the wrapping key's stored authorizations (the
\* AuthProxy over hw_enforced and sw_enforced) and on the caller's
\* parameters: the status, and the check that was the last one made.
CheckAuthorizations(stored, wrapping_key_params) ==
    IF ~Contains(stored, "KM_TAG_PURPOSE", KM_PURPOSE_WRAP)
    THEN [error |-> "KM_ERROR_INCOMPATIBLE_PURPOSE", step |-> "stored_purpose"]
    ELSE IF ~Contains(stored, "KM_TAG_DIGEST", KM_DIGEST_SHA_2_256)
    THEN [error |-> "KM_ERROR_INCOMPATIBLE_DIGEST", step |-> "stored_digest"]
    ELSE IF ~Contains(stored, "KM_TAG_PADDING", KM_PAD_RSA_OAEP)
    THEN [error |-> "KM_ERROR_INCOMPATIBLE_PADDING_MODE", step |-> "stored_padding"]
    ELSE IF ~Contains(wrapping_key_params, "KM_TAG_DIGEST", KM_DIGEST_SHA_2_256)
    THEN [error |-> "KM_ERROR_INCOMPATIBLE_DIGEST", step |-> "params_digest"]
    ELSE IF ~Contains(wrapping_key_params, "KM_TAG_PADDING", KM_PAD_RSA_OAEP)
    THEN [error |-> "KM_ERROR_INCOMPATIBLE_PADDING_MODE", step |-> "params_padding"]
    ELSE [error |-> "KM_ERROR_OK", step |-> "params_padding"]

\* A return of UnwrapKey: the status, the last step started, the three
\* outputs as they stand, and the hwkey sessions left open.
Returned(error, step, outputs, sessions) ==
    [error |-> error, step |-> step, outputs |-> outputs, sessions |-> sessions]

\* A variant of step 3: the masking key is added to the transit key, byte by
\* byte.
MaskTransitKeyAdded(transport_key, masking_key) ==
    IF Len(transport_key) # Len(masking_key)
    THEN [error |-> "KM_ERROR_INVALID_ARGUMENT", transport_key |-> transport_key]
    ELSE [error |-> "KM_ERROR_OK",
          transport_key |-> [i \in 1..Len(transport_key) |->
                                (transport_key[i] + masking_key[i]) % 4]]

\* Step 3: transport_key, the copy of the decrypted transit key, is XORed
\* in place with the masking key.
MaskTransitKey(transport_key, masking_key) ==
    IF Len(transport_key) # Len(masking_key)
    THEN [error |-> "KM_ERROR_INVALID_ARGUMENT", transport_key |-> transport_key]
    ELSE [error |-> "KM_ERROR_OK",
          transport_key |-> XorBytes(transport_key, masking_key)]

\* Steps 2 to 4, behind the authorization checks.
UnwrapParsedKey(wrapped_key_blob, wrapping_key, masking_key, outputs, fault, sessions) ==
    LET parsed == ParseWrappedKey(wrapped_key_blob)
        container == parsed.container
        written == [outputs EXCEPT !.wrapped_key_params = container.params,
                                   !.wrapped_key_format = container.format]
        transit == DecryptTransitKey(wrapping_key, container.transit_key, fault)
        masked == MaskTransitKey(transit.output, masking_key)
        plain == AesGcmDecrypt(masked.transport_key, container, fault)
    IN  IF parsed.error # "KM_ERROR_OK"
        THEN Returned(parsed.error, "parse_wrapped_key", outputs, sessions)
        ELSE IF transit.error # "KM_ERROR_OK"
        THEN Returned(transit.error, "decrypt_transit_key", written, sessions)
        ELSE IF masked.error # "KM_ERROR_OK"
        THEN Returned(masked.error, "mask_transit_key", written, sessions)
        ELSE IF plain.error # "KM_ERROR_OK"
        THEN Returned(plain.error, "aes_gcm_decrypt", written, sessions)
        ELSE IF fault = "material_copy_fails"
        THEN Returned("KM_ERROR_MEMORY_ALLOCATION_FAILED", "aes_gcm_decrypt",
                      [written EXCEPT !.wrapped_key_material = NoBlob], sessions)
        ELSE Returned("KM_ERROR_OK", "aes_gcm_decrypt",
                      [written EXCEPT !.wrapped_key_material = plain.plaintext],
                      sessions)

\* UnwrapKey. ParseKeyBlob is called without allow_ocb; the wrapping key's
\* algorithm has a factory.
UnwrapKey(wrapped_key_blob, wrapping_key_blob, wrapping_key_params, masking_key, outputs, env) ==
    LET parsed == ParseKeyBlob(wrapping_key_blob, wrapping_key_params, FALSE,
                               env.hwkey, "TASK_FAULT")
        wrapping_key == parsed.key
        checked == CheckAuthorizations(
                       wrapping_key.hw_enforced \o wrapping_key.sw_enforced,
                       wrapping_key_params)
    IN  IF env.fault = "null_wrapped_key_material"
        THEN Returned("KM_ERROR_UNEXPECTED_NULL_POINTER", "none", outputs, 0)
        ELSE IF parsed.error # "KM_ERROR_OK"
        THEN Returned(parsed.error, "ParseKeyBlob", outputs, parsed.sessions)
        ELSE IF checked.error # "KM_ERROR_OK"
        THEN Returned(checked.error, checked.step, outputs, parsed.sessions)
        ELSE UnwrapParsedKey(wrapped_key_blob, wrapping_key, masking_key, outputs,
                             env.fault, parsed.sessions)

UnwrapKeyCall(wrapped_key_blob, wrapping_key_params, masking_key, env) ==
    /\ held # None
    /\ LET r == UnwrapKey(wrapped_key_blob, held.blob, wrapping_key_params,
                          masking_key, FreshOutputs, env)
       IN  /\ last' = [op |-> "UnwrapKey", wrapped_key_blob |-> wrapped_key_blob,
                       wrapping_key_params |-> wrapping_key_params,
                       masking_key |-> masking_key, env |-> env,
                       error |-> r.error, step |-> r.step,
                       outputs |-> r.outputs]
           /\ hwkey_sessions' = StillOpen(hwkey_sessions, r.sessions)
    /\ UNCHANGED <<build, rng, token_key, ctx, held, threads, boot_params_calls>>

\* Wrapping keys: an RSA key with the three authorizations, RSA keys that
\* lack one, two or all of them, and an EC key with all three.
WrapAuthorizations ==
    <<Param("KM_TAG_PURPOSE", KM_PURPOSE_WRAP),
      Param("KM_TAG_DIGEST", KM_DIGEST_SHA_2_256),
      Param("KM_TAG_PADDING", KM_PAD_RSA_OAEP)>>

Without(set, tags) == SelectSeq(set, LAMBDA p : p.tag \notin tags)

WrappingKeyDescriptions ==
    {<<Param("KM_TAG_ALGORITHM", KM_ALGORITHM_RSA)>> \o Without(WrapAuthorizations, t) :
        t \in {{}, {"KM_TAG_PURPOSE"}, {"KM_TAG_DIGEST"}, {"KM_TAG_PADDING"},
               {"KM_TAG_PURPOSE", "KM_TAG_DIGEST"},
               {"KM_TAG_DIGEST", "KM_TAG_PADDING"},
               {"KM_TAG_PURPOSE", "KM_TAG_DIGEST", "KM_TAG_PADDING"}}}
    \cup {<<Param("KM_TAG_ALGORITHM", KM_ALGORITHM_EC)>> \o WrapAuthorizations,
          <<Param("KM_TAG_ALGORITHM", KM_ALGORITHM_RSA),
            Param("KM_TAG_PURPOSE", 1), Param("KM_TAG_DIGEST", 2),
            Param("KM_TAG_PADDING", 4)>>}

\* The caller's operation parameters.
WrappingKeyParams ==
    {Without(<<Param("KM_TAG_DIGEST", KM_DIGEST_SHA_2_256),
               Param("KM_TAG_PADDING", KM_PAD_RSA_OAEP)>>, t) :
        t \in {{}, {"KM_TAG_DIGEST"}, {"KM_TAG_PADDING"},
               {"KM_TAG_DIGEST", "KM_TAG_PADDING"}}}

MaskingKeys == {<<0, 0>>, <<1, 2>>, <<1>>}

\* The containers a producer makes for the wrapping key of material <<170>>
\* and the masking key <<1, 2>>: a sound one of an AES key, one encrypted to
\* another wrapping key, one with a forged tag, one whose transit key is a
\* byte short; and bytes that are no container.
WrappedKeys ==
    LET params == <<Param("KM_TAG_ALGORITHM", KM_ALGORITHM_AES)>>
        sound(to, transit, tag) ==
            WrappedKey(<<9>>, to, transit, <<55, 66>>, <<3, 1>>, tag, params,
                       "KM_KEY_FORMAT_RAW", <<7>>)
    IN  {sound(<<170>>, XorBytes(<<3, 1>>, <<1, 2>>), "tag"),
         sound(<<0>>, XorBytes(<<3, 1>>, <<1, 2>>), "tag"),
         sound(<<170>>, XorBytes(<<3, 1>>, <<1, 2>>), "forged"),
         sound(<<170>>, <<2>>, "tag"),
         [k |-> "garbage"]}

\* One collaborator fails at a time.
UnwrapEnvs ==
    {[hwkey |-> h, fault |-> "none"] : h \in {"ok", "open_fails", "derive_fails"}}
    \cup {[hwkey |-> "ok", fault |-> f] :
            f \in {"null_wrapped_key_material", "rsa_begin_fails",
                   "input_alloc_fails", "aes_load_fails", "material_copy_fails"}}

(***************************************************************************)
(* SpecUnwrap: wrapping keys are created, and wrapped keys are imported    *)
(* under them, one call at a time.                                         *)
(***************************************************************************)
NextUnwrap ==
    \/ \E d \in WrappingKeyDescriptions :
          Idle /\ CreateKeyBlobCall(d, KM_ORIGIN_GENERATED, <<170>>,
                                    [sw |-> "OK", hw |-> "OK"], "ok")
    \/ \E w \in WrappedKeys, p \in WrappingKeyParams, m \in MaskingKeys,
          e \in UnwrapEnvs :
          Idle /\ UnwrapKeyCall(w, p, m, e)
    \/ Return

SpecUnwrap == Init /\ [][NextUnwrap]_vars

(***************************************************************************)
(* The authentication-token key and CheckConfirmationToken. HMAC-SHA256 is *)
(* symbolic: two codes are equal exactly when they were computed under the *)
(* same key over the same bytes.                                           *)
(***************************************************************************)
kConfirmationTokenSize == 32

\* What enforcement_policy_.GetHmacKey does: it fills the buffer with the key
\* it has at the time, or it fails.
HmacKeyOutcomes ==
    {[error |-> "KM_ERROR_OK", key |-> <<11>>],
     [error |-> "KM_ERROR_OK", key |-> <<22>>],
     [error |-> "KM_ERROR_INVALID_ARGUMENT", key |-> NoBlob]}

\* What HMAC does: it computes the code, of the digest's length; or it
\* returns null; or it reports another length.
HmacOutcomes == {"ok", "fails", "short"}

HmacSha256(key, data) == [k |-> "hmac_sha256", key |-> key, data |-> data]

HMAC(key, data, hmac) ==
    CASE hmac = "fails" -> [ok |-> FALSE, hash |-> None, length |-> 0]
      [] hmac = "short" -> [ok |-> TRUE, hash |-> HmacSha256(key, data), length |-> 20]
      [] OTHER -> [ok |-> TRUE, hash |-> HmacSha256(key, data),
                   length |-> kConfirmationTokenSize]

\* A variant of InitializeAuthTokenKey that does not set the flag.
InitializeAuthTokenKeyFlagNotSet(policy) ==
    IF auth_token_key_initialized_
    THEN [initialized |-> TRUE, key |-> auth_token_key_, requests |-> 0]
    ELSE [initialized |-> FALSE,
          key |-> IF policy.error = "KM_ERROR_OK" THEN policy.key ELSE auth_token_key_,
          requests |-> 1]

\* InitializeAuthTokenKey: the flag and the buffer it leaves, and the
\* requests it made to the enforcement policy.
InitializeAuthTokenKey(policy) ==
    IF auth_token_key_initialized_
    THEN [initialized |-> TRUE, key |-> auth_token_key_, requests |-> 0]
    ELSE [initialized |-> policy.error = "KM_ERROR_OK",
          key |-> IF policy.error = "KM_ERROR_OK" THEN policy.key ELSE auth_token_key_,
          requests |-> 1]

\* GetAuthTokenKey: the status, the key output (None where it is not
\* written), and the members as the call leaves them.
GetAuthTokenKey(policy) ==
    LET init == InitializeAuthTokenKey(policy) IN
    IF auth_token_key_initialized_
    THEN [error |-> "KM_ERROR_OK", key |-> auth_token_key_,
          initialized |-> TRUE, buffer |-> auth_token_key_, requests |-> 0]
    ELSE IF ~init.initialized
    THEN [error |-> "KM_ERROR_UNKNOWN_ERROR", key |-> None,
          initialized |-> init.initialized, buffer |-> init.key,
          requests |-> init.requests]
    ELSE [error |-> "KM_ERROR_OK", key |-> init.key,
          initialized |-> init.initialized, buffer |-> init.key,
          requests |-> init.requests]

\* A variant of CheckConfirmationToken without the comparison of the bytes.
CheckConfirmationTokenLengthOnly(input_data, confirmation_token, policy, hmac) ==
    LET got == GetAuthTokenKey(policy)
        computed == HMAC(got.key, input_data, hmac)
    IN  IF got.error # "KM_ERROR_OK"
        THEN [error |-> got.error, got |-> got, hmac_calls |-> 0]
        ELSE IF ~computed.ok
        THEN [error |-> "KM_ERROR_UNKNOWN_ERROR", got |-> got, hmac_calls |-> 1]
        ELSE IF computed.length # kConfirmationTokenSize
        THEN [error |-> "KM_ERROR_NO_USER_CONFIRMATION", got |-> got, hmac_calls |-> 1]
        ELSE [error |-> "KM_ERROR_OK", got |-> got, hmac_calls |-> 1]

CheckConfirmationToken(input_data, confirmation_token, policy, hmac) ==
    LET got == GetAuthTokenKey(policy)
        computed == HMAC(got.key, input_data, hmac)
    IN  IF got.error # "KM_ERROR_OK"
        THEN [error |-> got.error, got |-> got, hmac_calls |-> 0]
        ELSE IF ~computed.ok
        THEN [error |-> "KM_ERROR_UNKNOWN_ERROR", got |-> got, hmac_calls |-> 1]
        ELSE IF \/ computed.length # kConfirmationTokenSize
                \/ computed.hash # confirmation_token
        THEN [error |-> "KM_ERROR_NO_USER_CONFIRMATION", got |-> got, hmac_calls |-> 1]
        ELSE [error |-> "KM_ERROR_OK", got |-> got, hmac_calls |-> 1]

GetAuthTokenKeyCall(policy) ==
    LET r == GetAuthTokenKey(policy)
    IN  /\ auth_token_key_initialized_' = r.initialized
        /\ auth_token_key_' = r.buffer
        /\ last' = [op |-> "GetAuthTokenKey", policy |-> policy,
                    error |-> r.error, key |-> r.key, requests |-> r.requests]
        /\ UNCHANGED <<build, rng, hwkey_sessions, ctx, held, threads,
                       boot_params_calls>>

CheckConfirmationTokenCall(input_data, confirmation_token, policy, hmac) ==
    LET r == CheckConfirmationToken(input_data, confirmation_token, policy, hmac)
    IN  /\ auth_token_key_initialized_' = r.got.initialized
        /\ auth_token_key_' = r.got.buffer
        /\ last' = [op |-> "CheckConfirmationToken", input_data |-> input_data,
                    confirmation_token |-> confirmation_token,
                    policy |-> policy, hmac |-> hmac,
                    error |-> r.error, key |-> r.got.key,
                    requests |-> r.got.requests, hmac_calls |-> r.hmac_calls]
        /\ UNCHANGED <<build, rng, hwkey_sessions, ctx, held, threads,
                       boot_params_calls>>

\* The bytes confirmed, and the tokens a caller sends: the codes of those
\* bytes under the keys the policy may have, and 32 other bytes.
ConfirmedData == {<<1>>, <<2, 3>>}

ConfirmationTokens ==
    {HmacSha256(p.key, d) : p \in HmacKeyOutcomes, d \in ConfirmedData}
    \cup {[k |-> "other_bytes", key |-> NoBlob, data |-> NoBlob]}

(***************************************************************************)
(* SpecToken: GetAuthTokenKey and CheckConfirmationToken, one call after   *)
(* another from the constructor on, whatever the enforcement policy and    *)
(* HMAC do.                                                                *)
(***************************************************************************)
NextToken ==
    \/ \E p \in HmacKeyOutcomes : GetAuthTokenKeyCall(p)
    \/ \E d \in ConfirmedData, t \in ConfirmationTokens, p \in HmacKeyOutcomes,
          h \in HmacOutcomes :
          CheckConfirmationTokenCall(d, t, p, h)

SpecToken == Init /\ [][NextToken]_vars

(***************************************************************************)
(* SpecLegacy: ParseKeyBlob with and without allow_ocb, on blobs           *)
(* CreateKeyBlob returned and on AES_OCB blobs that an earlier release     *)
(* made of the same keys under the same master key.                        *)
(***************************************************************************)
\* The caller holds a blob of the legacy format.
HoldLegacyKeyBlob(key_description, key_material) ==
    LET auth == SetAuthorizations(key_description, KM_ORIGIN_GENERATED,
                                  [sw |-> "OK", hw |-> "OK"])
        hidden == BuildHiddenAuthorizations(key_description, <<>>)
    IN  /\ auth.error = "KM_ERROR_OK"
        /\ held' = [blob |-> SerializeAuthEncryptedBlob(
                                 EncryptKey(key_material, "AES_OCB", auth.hw,
                                            auth.sw, hidden.hidden,
                                            DeviceMasterKey),
                                 auth.hw, auth.sw),
                    by |-> "legacy", key_description |-> key_description,
                    key_material |-> key_material, hw_enforced |-> auth.hw,
                    sw_enforced |-> auth.sw, root_of_trust |-> RootOfTrustTriple]
        /\ last' = [op |-> "HoldLegacyKeyBlob"]
        /\ UNCHANGED <<build, rng, token_key, hwkey_sessions, ctx, threads,
                       boot_params_calls>>

NextLegacy ==
    \/ \E d \in KeyDescriptions : Idle /\ HoldLegacyKeyBlob(d, <<170>>)
    \/ \E d \in KeyDescriptions :
          Idle /\ CreateKeyBlobCall(d, KM_ORIGIN_GENERATED, <<170>>,
                                    [sw |-> "OK", hw |-> "OK"], "ok")
    \/ \E t \in PrefixTypes, a \in AdditionalParams, o \in BOOLEAN, e \in ParseEnvs :
          Idle /\ ParseKeyBlobCall(t, a, o, e.hwkey, e.ub)
    \/ Return

SpecLegacy == Init /\ [][NextLegacy]_vars

(***************************************************************************)
(* SpecHidden: BuildHiddenAuthorizations alone, on every input set of at   *)
(* most MaxInputLen entries, under the boot parameters of the codec.       *)
(***************************************************************************)
MaxInputLen == 2

BuildHiddenAuthorizationsCall(input_set) ==
    LET r == BuildHiddenAuthorizations(input_set, <<>>)
    IN  /\ last' = [op |-> "BuildHiddenAuthorizations", input_set |-> input_set,
                    error |-> r.error, hidden |-> r.hidden]
        /\ UNCHANGED <<build, rng, token_key, hwkey_sessions, ctx, held, threads,
                       boot_params_calls>>

\* Application ids and data (two of each, an empty one among them), and
\* entries of other tags, a root of trust of the caller's among them.
HiddenInputEntries ==
    {Param("KM_TAG_APPLICATION_ID", <<1>>), Param("KM_TAG_APPLICATION_ID", <<2>>),
     Param("KM_TAG_APPLICATION_DATA", <<3>>), Param("KM_TAG_APPLICATION_DATA", <<>>),
     Param("KM_TAG_ALGORITHM", KM_ALGORITHM_RSA),
     Param("KM_TAG_ROOT_OF_TRUST", <<9>>),
     Param("KM_TAG_USER_ID", 7)}

HiddenInputs(n) == UNION {[1..k -> HiddenInputEntries] : k \in 0..n}

NextHidden ==
    \/ \E b \in CodecBootParams : Idle /\ SetBootParamsCall(b[1], b[2], b[3], <<>>)
    \/ \E input_set \in HiddenInputs(MaxInputLen) :
          Idle /\ BuildHiddenAuthorizationsCall(input_set)
    \/ Return

SpecHidden == Init /\ [][NextHidden]_vars

(***************************************************************************)
(* SpecMask: step 3 of UnwrapKey alone, on every decrypted transit key and *)
(* every masking key of at most MaxKeyLen bytes.                           *)
(***************************************************************************)
MaxKeyLen == 2

Buffers(n) == UNION {[1..k -> 0..3] : k \in 0..n}

MaskTransitKeyCall(output, masking_key) ==
    LET r == MaskTransitKey(output, masking_key)
    IN  /\ last' = [op |-> "mask_transit_key", output |-> output,
                    masking_key |-> masking_key, error |-> r.error,
                    transport_key |-> r.transport_key]
        /\ UNCHANGED <<build, rng, token_key, hwkey_sessions, ctx, held, threads,
                       boot_params_calls>>

NextMask ==
    \/ \E output \in Buffers(MaxKeyLen), masking_key \in Buffers(MaxKeyLen) :
          Idle /\ MaskTransitKeyCall(output, masking_key)
    \/ Return

SpecMask == Init /\ [][NextMask]_vars

(***************************************************************************)
(* Vocabulary of the properties.                                           *)
(***************************************************************************)
\* The application id and the application data a set of parameters binds a
\* blob to. An absent entry differs from an empty one.
AppBinding(set) ==
    <<HiddenEntry(set, "KM_TAG_APPLICATION_ID"),
      HiddenEntry(set, "KM_TAG_APPLICATION_DATA")>>

\* The entries of an authorization set, as a set.
Entries(set) == {set[i] : i \in 1..Len(set)}

\* The last call was ParseKeyBlob, on a blob CreateKeyBlob returned.
ParsedCreated == last.op = "ParseKeyBlob" /\ held.by = "CreateKeyBlob"

\* That parse was given another application id or data than the creation, or
\* was made under another root-of-trust triple.
BindingDiffers ==
    \/ AppBinding(last.additional_params) # AppBinding(held.key_description)
    \/ RootOfTrustTriple # held.root_of_trust

\* The tags on which SetAuthorizations returns from inside its loop.
RejectedTags ==
    ForbiddenTags
    \cup {"KM_TAG_ROLLBACK_RESISTANCE", "KM_TAG_DEVICE_UNIQUE_ATTESTATION"}
    \cup (IF build.WITH_HWWSK_SUPPORT THEN {} ELSE {"KM_TAG_STORAGE_KEY"})

\* The position of the first entry of a description with such a tag, 0 if none.
FirstRejected(key_description) ==
    IF \E i \in 1..Len(key_description) : key_description[i].tag \in RejectedTags
    THEN CHOOSE i \in 1..Len(key_description) :
            /\ key_description[i].tag \in RejectedTags
            /\ \A j \in 1..(i - 1) : key_description[j].tag \notin RejectedTags
    ELSE 0

\* The last call was UpgradeKeyBlob; what ParseKeyBlob makes of the blob it
\* was given, under the parameters and the services of that call.
Upgraded == last.op = "UpgradeKeyBlob"

ParsedForUpgrade ==
    ParseKeyBlob(last.key_to_upgrade, last.upgrade_params, TRUE,
                 last.hwkey_parse, last.ub)

Parseable ==
    ParsedForUpgrade.error = "KM_ERROR_OK" /\ ParsedForUpgrade.key # None

\* The version a blob records under a tag (SetAuthorizations puts the
\* versions in hw_enforced).
Recorded(blob, tag) == GetTagValue(blob[1].hw_enforced, tag)

\* The blob the caller holds after the upgrade call.
BlobAfterUpgrade ==
    IF last.upgraded_key # NoBlob THEN last.upgraded_key ELSE last.key_to_upgrade

\* The result of the last parse; the same parse on the blob with its
\* outermost prefix removed; the rejection.
ParseResult == [error |-> last.error, key |-> last.key]

ParseWithoutPrefix ==
    LET r == ParseKeyBlob(Prefixed(Tail(last.types), held.blob),
                          last.additional_params, last.allow_ocb, last.hwkey,
                          last.ub)
    IN  [error |-> r.error, key |-> r.key]

InvalidKeyBlob == [error |-> "KM_ERROR_INVALID_KEY_BLOB", key |-> None]

\* The four stored boot parameters.
StoredBootParams ==
    [key |-> verified_boot_key_, state |-> verified_boot_state_,
     locked |-> device_locked_, hash |-> verified_boot_hash_]

\* Both racing callers have returned from the same function.
BothDone(op) == \A t \in Callers : threads[t].pc = "done" /\ threads[t].op = op

(***************************************************************************)
(* C1. Binding: ParseKeyBlob on a blob CreateKeyBlob produced, given        *)
(* additional_params whose application id or application data differ from  *)
(* the creation-time key description, or called while the root-of-trust    *)
(* triple (verified boot key, verified boot state, device-locked) differs   *)
(* from the one in force at creation, returns an error and yields no key.   *)
(***************************************************************************)
C1_Binding ==
    (ParsedCreated /\ BindingDiffers)
        => (last.error # "KM_ERROR_OK" /\ last.key = None)

\* A parse with the creation's application id and data, with every service
\* working, under a triple that differs from the creation's in the
\* device-locked flag alone: rejected by the decryption.
C1_Witness ==
    /\ ParsedCreated
    /\ last.types = <<>> /\ last.hwkey = "ok"
    /\ AppBinding(last.additional_params) = AppBinding(held.key_description)
    /\ held.root_of_trust[1] = verified_boot_key_
    /\ held.root_of_trust[2] = verified_boot_state_
    /\ held.root_of_trust[3] # device_locked_
    /\ last.error = "KM_ERROR_INVALID_KEY_BLOB"

(***************************************************************************)
(* C2. Round trip, as claimed: whenever CreateKeyBlob succeeded,            *)
(* ParseKeyBlob on the returned blob with the same application id and data  *)
(* and an unchanged root of trust (and the hwkey service working) succeeds, *)
(* and yields the original key material and, as sets, the hw_enforced and   *)
(* sw_enforced that CreateKeyBlob returned. The code does not satisfy it.   *)
(***************************************************************************)
C2_RoundTrip ==
    (/\ ParsedCreated /\ ~BindingDiffers
     /\ last.types = <<>> /\ last.hwkey = "ok")
        => /\ last.error = "KM_ERROR_OK"
           /\ last.key # None
           /\ last.key.key_material = held.key_material
           /\ Entries(last.key.hw_enforced) = Entries(held.hw_enforced)
           /\ Entries(last.key.sw_enforced) = Entries(held.sw_enforced)

(***************************************************************************)
(* C3. For a key description with no forbidden-in-description tag on which  *)
(* SetAuthorizations returns success, no tag is in both the resulting       *)
(* hw_enforced and the resulting sw_enforced.                               *)
(***************************************************************************)
C3_NoTagInBoth ==
    (/\ last.op = "SetAuthorizations"
     /\ Tags(last.key_description) \cap ForbiddenTags = {}
     /\ last.error = "KM_ERROR_OK")
        => Tags(last.hw_enforced) \cap Tags(last.sw_enforced) = {}

\* A successful call that classified one entry of the description to each set.
C3_Witness ==
    /\ last.op = "SetAuthorizations"
    /\ last.error = "KM_ERROR_OK"
    /\ Tags(last.key_description) \cap HwEnforcedTags # {}
    /\ Tags(last.key_description) \cap KeystoreEnforcedTags # {}
    /\ Tags(last.sw_enforced) # {}
    /\ Tags(last.hw_enforced) \cap Tags(last.key_description) # {}

(***************************************************************************)
(* C4, as claimed: for a key description with a forbidden-in-description    *)
(* tag at any position, SetAuthorizations returns invalid-key-blob and both *)
(* hw_enforced and sw_enforced are empty on return. The code does not       *)
(* satisfy it: it returns at the first rejected entry, with the sets as     *)
(* the entries before it left them.                                         *)
(***************************************************************************)
C4_ForbiddenAnywhere ==
    (/\ last.op = "SetAuthorizations"
     /\ Tags(last.key_description) \cap ForbiddenTags # {})
        => /\ last.error = "KM_ERROR_INVALID_KEY_BLOB"
           /\ last.hw_enforced = <<>>
           /\ last.sw_enforced = <<>>

(***************************************************************************)
(* C4, amended: when the first entry of the description on which            *)
(* SetAuthorizations rejects (forbidden, rollback-resistance,               *)
(* device-unique-attestation, storage-key in a build without HWWSK) has a   *)
(* forbidden-in-description tag, SetAuthorizations returns                  *)
(* invalid-key-blob; on return hw_enforced and sw_enforced hold only        *)
(* entries of tags that precede that entry (both are empty when it is the   *)
(* first entry), and neither origin nor the system versions were added.     *)
(***************************************************************************)
C4_ForbiddenFirstRejected ==
    (/\ last.op = "SetAuthorizations"
     /\ FirstRejected(last.key_description) # 0
     /\ last.key_description[FirstRejected(last.key_description)].tag
            \in ForbiddenTags)
        => /\ last.error = "KM_ERROR_INVALID_KEY_BLOB"
           /\ Tags(last.hw_enforced) \cup Tags(last.sw_enforced)
                 \subseteq Tags(SubSeq(last.key_description, 1,
                                       FirstRejected(last.key_description) - 1))
           /\ Len(last.hw_enforced) + Len(last.sw_enforced)
                 <= FirstRejected(last.key_description) - 1

\* A forbidden tag behind a hardware-enforced one: invalid-key-blob, with the
\* hardware-enforced entry left in hw_enforced.
C4_Witness ==
    /\ last.op = "SetAuthorizations"
    /\ Len(last.key_description) = 2
    /\ last.key_description[1].tag \in HwEnforcedTags
    /\ last.key_description[2].tag \in ForbiddenTags
    /\ last.error = "KM_ERROR_INVALID_KEY_BLOB"
    /\ last.hw_enforced = <<last.key_description[1]>>

(***************************************************************************)
(* C5. Zero-boot-version rule, as claimed: whenever the boot OS version is  *)
(* 0, UpgradeKeyBlob on a parseable blob, whatever OS version it records    *)
(* (its patchlevel being no downgrade, the hwkey service working),          *)
(* succeeds, and the blob the caller is left with records OS version 0.     *)
(* The code does not satisfy it.                                            *)
(***************************************************************************)
C5_ZeroBootVersion ==
    (/\ Upgraded /\ Parseable
     /\ last.hwkey_create = "ok"
     /\ boot_os_version_ = 0
     /\ Recorded(last.key_to_upgrade, "KM_TAG_OS_PATCHLEVEL") <= boot_os_patchlevel_)
        => /\ last.error = "KM_ERROR_OK"
           /\ Recorded(BlobAfterUpgrade, "KM_TAG_OS_VERSION") = 0

(***************************************************************************)
(* C6. Downgrade rejection: when the boot OS version is not 0,              *)
(* UpgradeKeyBlob on a (parseable) blob that records an OS version greater  *)
(* than the boot OS version, or an OS patchlevel greater than the boot OS   *)
(* patchlevel, returns invalid-argument and writes no upgraded blob, even   *)
(* when the other of the two would have been an increase.                   *)
(***************************************************************************)
C6_DowngradeRejected ==
    (/\ Upgraded /\ Parseable
     /\ boot_os_version_ # 0
     /\ \/ Recorded(last.key_to_upgrade, "KM_TAG_OS_VERSION") > boot_os_version_
        \/ Recorded(last.key_to_upgrade, "KM_TAG_OS_PATCHLEVEL") > boot_os_patchlevel_)
        => /\ last.error = "KM_ERROR_INVALID_ARGUMENT"
           /\ last.upgraded_key = NoBlob
           /\ held.blob = last.key_to_upgrade

\* The version would have been raised and the patchlevel lowered: rejected.
C6_Witness ==
    /\ Upgraded /\ Parseable
    /\ boot_os_version_ # 0
    /\ Recorded(last.key_to_upgrade, "KM_TAG_OS_VERSION") < boot_os_version_
    /\ Recorded(last.key_to_upgrade, "KM_TAG_OS_PATCHLEVEL") > boot_os_patchlevel_
    /\ last.error = "KM_ERROR_INVALID_ARGUMENT"

(***************************************************************************)
(* C7. Upgrade idempotence: when UpgradeKeyBlob has succeeded on a blob B   *)
(* and the next call on the context is UpgradeKeyBlob with the same upgrade *)
(* params (boot OS version and patchlevel unchanged, the hwkey service      *)
(* working), on the new blob B' if the first call returned one and on B     *)
(* again if not, then that call returns success and produces no new blob.   *)
(***************************************************************************)
C7_UpgradeIdempotent ==
    [][(/\ Upgraded
        /\ last.error = "KM_ERROR_OK"
        /\ last'.op = "UpgradeKeyBlob"
        /\ last'.upgrade_params = last.upgrade_params
        /\ last'.key_to_upgrade = BlobAfterUpgrade
        /\ last'.hwkey_parse = "ok"
        /\ boot_os_version_' = boot_os_version_
        /\ boot_os_patchlevel_' = boot_os_patchlevel_)
          => (last'.error = "KM_ERROR_OK" /\ last'.upgraded_key = NoBlob)]_vars

\* The blob held came from an upgrade under these upgrade params, this root
\* of trust and these versions, and the upgrade of it just made returned
\* success and no new blob.
C7_Witness ==
    /\ Upgraded
    /\ held.by = "UpgradeKeyBlob"
    /\ last.key_to_upgrade = held.blob
    /\ last.upgrade_params = held.key_description
    /\ Recorded(held.blob, "KM_TAG_OS_VERSION") = boot_os_version_
    /\ Recorded(held.blob, "KM_TAG_OS_PATCHLEVEL") = boot_os_patchlevel_
    /\ boot_os_version_ # 0
    /\ last.error = "KM_ERROR_OK"
    /\ last.upgraded_key = NoBlob

(***************************************************************************)
(* C8, as claimed: in ParseKeyBlob a blob that starts with the magic and    *)
(* type byte 0 is parsed exactly as the same blob with the 8-byte prefix    *)
(* removed (same result, same error); with type byte 1, or any other type   *)
(* byte, it fails with invalid-key-blob. The code does not satisfy the      *)
(* first part when the blob behind the prefix starts with a prefix again:   *)
(* the prefix is removed once.                                              *)
(***************************************************************************)
C8_PrefixAsIfAbsent ==
    (last.op = "ParseKeyBlob" /\ last.types # <<>>)
        => IF Head(last.types) = 0
           THEN ParseResult = ParseWithoutPrefix
           ELSE ParseResult = InvalidKeyBlob

(***************************************************************************)
(* C8, amended: a blob that starts with the magic and type byte 0 has its   *)
(* 8-byte prefix removed once and the rest handed to deserialization: when  *)
(* the rest does not start with a prefix itself, the result and the error   *)
(* are those of ParseKeyBlob on the rest; when it does, the rest is no      *)
(* serialized blob and the parse fails, yielding no key. With type byte 1,  *)
(* or any other type byte, the parse fails with invalid-key-blob whatever   *)
(* the blob, the parameters and the hwkey service are (nothing is           *)
(* deserialized, derived or decrypted).                                     *)
(***************************************************************************)
C8_PrefixRemovedOnce ==
    (last.op = "ParseKeyBlob" /\ last.types # <<>>)
        => IF Head(last.types) # 0 THEN ParseResult = InvalidKeyBlob
           ELSE IF Tail(last.types) = <<>> THEN ParseResult = ParseWithoutPrefix
           ELSE last.error # "KM_ERROR_OK" /\ last.key = None

\* A blob behind one prefix of type byte 0, parsed to a key.
C8_Witness ==
    /\ last.op = "ParseKeyBlob"
    /\ last.types = <<0>>
    /\ last.error = "KM_ERROR_OK"
    /\ last.key # None
    /\ last.key.key_material = held.key_material

(***************************************************************************)
(* C9. Root of trust is set at most once: of the SetBootParams calls made   *)
(* on a context the first succeeds, and every later one returns             *)
(* root-of-trust-already-set and leaves the verified boot key, the verified *)
(* boot state, the device-locked flag and the verified boot hash as they    *)
(* were.                                                                    *)
(***************************************************************************)
C9_RootOfTrustSetOnce ==
    last.op = "SetBootParams"
        => /\ boot_params_calls = 1 => last.error = "KM_ERROR_OK"
           /\ boot_params_calls = 2
                 => /\ last.error = "KM_ERROR_ROOT_OF_TRUST_ALREADY_SET"
                    /\ rot = last.before

\* A later call, with another key, state and hash than those stored: rejected.
C9_Witness ==
    /\ last.op = "SetBootParams"
    /\ boot_params_calls = 2
    /\ last.verified_boot_key # verified_boot_key_
    /\ last.verified_boot_state # verified_boot_state_
    /\ last.verified_boot_hash # verified_boot_hash_
    /\ last.error = "KM_ERROR_ROOT_OF_TRUST_ALREADY_SET"

(***************************************************************************)
(* C10. Exactly-once under a race, as claimed: when two first calls of      *)
(* SetBootParams have both returned, one returned success and the other     *)
(* root-of-trust-already-set, and the stored boot parameters are those the  *)
(* successful call alone stores; when two first calls of SetSystemVersion   *)
(* have both returned, the stored version and patchlevel are the arguments  *)
(* of one of them. The code does not satisfy it.                            *)
(***************************************************************************)
C10_ExactlyOnceUnderRace ==
    /\ BothDone("SetBootParams")
          => \E t \in Callers :
                /\ threads[t].error = "KM_ERROR_OK"
                /\ \A u \in Callers \ {t} :
                      threads[u].error = "KM_ERROR_ROOT_OF_TRUST_ALREADY_SET"
                /\ StoredBootParams =
                      BootParamsStored(threads[t].args.key, threads[t].args.state,
                                       threads[t].args.locked, threads[t].args.hash)
    /\ BothDone("SetSystemVersion")
          => \E t \in Callers :
                /\ boot_os_version_ = threads[t].args.os_version
                /\ boot_os_patchlevel_ = threads[t].args.os_patchlevel

(***************************************************************************)
(* C11: every DeriveMasterKey call whose hwkey_open succeeded has closed   *)
(* that session when it returns, on every exit path, so whatever calls     *)
(* were made, no hwkey session of the task is open.                        *)
(***************************************************************************)
C11_NoSessionLeftOpen == hwkey_sessions = 0

(***************************************************************************)
(* C15: of the checks made of a seeded RNG, every 32nd one asks for a      *)
(* reseed and no other does: the first 32 checks after the first seed ask  *)
(* for exactly one, on the 32nd, and k checks for k \div 32.               *)
(***************************************************************************)
C15_ReseedEvery32nd ==
    rng_initialized_ =>
        /\ rng_history.reseeds = rng_history.checks \div 32
        /\ (last.op = "SeedRngIfNeeded" /\ last.initialized_before) =>
               (last.reseed <=> rng_history.checks % 32 = 0)

\* 64 checks were made since the first seed: the 32nd and the 64th asked.
C15_Witness ==
    /\ rng_initialized_
    /\ rng_history = [checks |-> 64, reseeds |-> 2]
    /\ last.op = "SeedRngIfNeeded" /\ last.reseed

(***************************************************************************)
(* C16: a check whose hardware read fails adds no entropy and leaves       *)
(* rng_initialized_ as it was; the flag turns true only in a check whose   *)
(* hardware read succeeded, and never turns false; while it is false every *)
(* check attempts a reseed, and returns false if the read fails.           *)
(***************************************************************************)
C16_FailedReseed ==
    [][/\ (last'.reseed /\ last'.trusty_rng = "hw_rand_fails") =>
              (last'.entropy = 0 /\ rng_initialized_' = rng_initialized_)
       /\ (~rng_initialized_ /\ rng_initialized_') =>
              (last'.reseed /\ last'.trusty_rng # "hw_rand_fails")
       /\ rng_initialized_ => rng_initialized_'
       /\ ~rng_initialized_ =>
              /\ last'.reseed
              /\ last'.trusty_rng = "hw_rand_fails" => ~last'.result]_vars

\* The hardware read of the reseed of a seeded RNG failed: it is still seeded.
C16_Witness ==
    /\ last.op = "SeedRngIfNeeded"
    /\ last.reseed /\ last.trusty_rng = "hw_rand_fails"
    /\ last.initialized_before /\ rng_initialized_

(***************************************************************************)
(* C17: concurrent SeedRngIfNeeded checks each increment the call counter  *)
(* exactly once and no update is lost: when no check is in progress, the   *)
(* counter has counted every check made of the seeded RNG since its first  *)
(* seed (when the counter was 0), and those N checks asked for exactly     *)
(* N \div 32 reseeds.                                                      *)
(***************************************************************************)
C17_NoLostUpdate ==
    (\A t \in Callers : threads[t].pc = "idle") =>
        /\ calls_since_reseed_ = rng_history.checks
        /\ rng_history.reseeds = rng_history.checks \div 32

\* The last call was one of the two Generate functions, on a target key that
\* has an algorithm, which is neither RSA nor EC.
GeneratedForOtherAlgorithm ==
    /\ last.op \in {"GenerateAttestation", "GenerateSelfSignedCertificate"}
    /\ HasTagValue(last.authorizations, "KM_TAG_ALGORITHM")
    /\ GetTagValue(last.authorizations, "KM_TAG_ALGORITHM")
          \notin {KM_ALGORITHM_RSA, KM_ALGORITHM_EC}

\* The last call was GetAttestationKey or GetAttestationChain.
Fetched == last.op \in {"GetAttestationKey", "GetAttestationChain"}

\* The key or chain is the bundled test material.
IsTestMaterial(result) ==
    result # <<>> /\ result[1].k \in {"test_key", "test_cert"}

\* Secure storage failed: no session, or a failed read.
StorageFailed == last.storage \in {"no_session", "read_fails"}

(***************************************************************************)
(* C18, as stated: for a target key whose algorithm is neither RSA nor EC, *)
(* GenerateAttestation and GenerateSelfSignedCertificate return an empty   *)
(* chain with the unsupported-algorithm error and do not invoke the        *)
(* certificate generator.                                                  *)
(***************************************************************************)
C18_UnsupportedAlgorithm ==
    GeneratedForOtherAlgorithm =>
        /\ last.result = <<>>
        /\ last.error = "KM_ERROR_UNSUPPORTED_ALGORITHM"
        /\ last.generator = "unused"

(***************************************************************************)
(* C18, amended: for such a key they return an empty chain with the        *)
(* incompatible-algorithm error and do not invoke the certificate          *)
(* generator; for a key without an algorithm, an empty chain with          *)
(* unknown-error, the generator not invoked either.                        *)
(***************************************************************************)
C18_IncompatibleAlgorithm ==
    /\ GeneratedForOtherAlgorithm =>
           /\ last.result = <<>>
           /\ last.error = "KM_ERROR_INCOMPATIBLE_ALGORITHM"
           /\ last.generator = "unused"
    /\ ( /\ last.op \in {"GenerateAttestation", "GenerateSelfSignedCertificate"}
         /\ ~HasTagValue(last.authorizations, "KM_TAG_ALGORITHM") ) =>
           /\ last.result = <<>>
           /\ last.error = "KM_ERROR_UNKNOWN_ERROR"
           /\ last.generator = "unused"

\* An attestation was asked for an AES key.
C18_Witness ==
    /\ GeneratedForOtherAlgorithm
    /\ last.op = "GenerateAttestation"
    /\ GetTagValue(last.authorizations, "KM_TAG_ALGORITHM") = KM_ALGORITHM_AES
    /\ last.error = "KM_ERROR_INCOMPATIBLE_ALGORITHM"

(***************************************************************************)
(* C19: for an algorithm other than RSA and EC, GetAttestationKey and      *)
(* GetAttestationChain return an empty result with unsupported-algorithm   *)
(* and touch neither secure storage nor the software fallback; for RSA and *)
(* EC the slot they read from storage is the fixed slot of the algorithm.  *)
(***************************************************************************)
C19_FixedSlotOrUnsupported ==
    Fetched =>
        IF last.algorithm \notin {KM_ALGORITHM_RSA, KM_ALGORITHM_EC}
        THEN /\ last.result = <<>>
             /\ last.error = "KM_ERROR_UNSUPPORTED_ALGORITHM"
             /\ last.read_slot = "none"
             /\ last.soft = "unused"
        ELSE /\ last.read_slot \in
                   {"none", IF last.algorithm = KM_ALGORITHM_RSA THEN "kRsa"
                            ELSE "kEcdsa"}
             /\ last.storage # "no_session" => last.read_slot # "none"

\* The EC key was fetched from its slot.
C19_Witness ==
    /\ last.op = "GetAttestationKey" /\ last.algorithm = KM_ALGORITHM_EC
    /\ last.error = "KM_ERROR_OK"
    /\ last.result = <<[k |-> "provisioned_key", slot |-> "kEcdsa"]>>

(***************************************************************************)
(* C20: in a build without KEYMASTER_SOFT_ATTESTATION_FALLBACK a failure   *)
(* of secure storage is returned as an error and the bundled test key or   *)
(* chain is never returned; the test key or chain is returned only in a    *)
(* build with the flag, after storage failed or, for the chain, returned   *)
(* zero entries.                                                           *)
(***************************************************************************)
C20_FallbackOnlyWhenEnabled ==
    Fetched =>
        /\ ~build.KEYMASTER_SOFT_ATTESTATION_FALLBACK =>
               /\ StorageFailed => last.error # "KM_ERROR_OK"
               /\ ~IsTestMaterial(last.result)
               /\ last.soft = "unused"
        /\ IsTestMaterial(last.result) =>
               /\ build.KEYMASTER_SOFT_ATTESTATION_FALLBACK
               /\ \/ StorageFailed
                  \/ last.op = "GetAttestationChain" /\ last.storage = "ok_empty"

\* Storage failed in a build without the flag; the caller got the error.
C20_Witness ==
    /\ last.op = "GetAttestationKey" /\ last.algorithm = KM_ALGORITHM_RSA
    /\ ~build.KEYMASTER_SOFT_ATTESTATION_FALLBACK
    /\ last.storage = "read_fails"
    /\ last.error # "KM_ERROR_OK" /\ last.result = <<>>

\* The last call was UnwrapKey, with a wrapped_key_material to write to.
Unwrapped ==
    last.op = "UnwrapKey" /\ last.env.fault # "null_wrapped_key_material"

\* The authorizations stored with the wrapping key the caller holds.
StoredAuthorizations == held.hw_enforced \o held.sw_enforced

StoredHas(tag, value) == Contains(StoredAuthorizations, tag, value)

ParamsHave(tag, value) == Contains(last.wrapping_key_params, tag, value)

\* The wrapping key of that call parses.
WrappingKeyParses ==
    ParseKeyBlob(held.blob, last.wrapping_key_params, FALSE, last.env.hwkey,
                 "TASK_FAULT").error = "KM_ERROR_OK"

\* The wrapped key of that call is a container, and its transit key opens
\* under the wrapping key.
IsContainer == last.wrapped_key_blob.k = "wrapped_key"

TransitKeyOpens ==
    /\ IsContainer
    /\ GetTagValue(held.hw_enforced, "KM_TAG_ALGORITHM") = KM_ALGORITHM_RSA
    /\ last.env.fault \notin {"rsa_begin_fails", "input_alloc_fails"}
    /\ last.wrapped_key_blob.transit_key.to = held.key_material

\* Whether a step of that call fails, taken by itself on the inputs of the
\* call (a step that needs the container fails with it).
StepFails(step) ==
    CASE step = "ParseKeyBlob" -> ~WrappingKeyParses
      [] step = "stored_purpose" -> ~StoredHas("KM_TAG_PURPOSE", KM_PURPOSE_WRAP)
      [] step = "stored_digest" -> ~StoredHas("KM_TAG_DIGEST", KM_DIGEST_SHA_2_256)
      [] step = "stored_padding" -> ~StoredHas("KM_TAG_PADDING", KM_PAD_RSA_OAEP)
      [] step = "params_digest" -> ~ParamsHave("KM_TAG_DIGEST", KM_DIGEST_SHA_2_256)
      [] step = "params_padding" -> ~ParamsHave("KM_TAG_PADDING", KM_PAD_RSA_OAEP)
      [] step = "parse_wrapped_key" -> ~IsContainer
      [] step = "decrypt_transit_key" -> ~TransitKeyOpens
      [] step = "mask_transit_key" ->
            \/ ~IsContainer
            \/ Len(last.wrapped_key_blob.transit_key.plain) # Len(last.masking_key)
      [] step = "aes_gcm_decrypt" ->
            \/ ~IsContainer
            \/ last.env.fault \in {"aes_load_fails", "material_copy_fails"}
            \/ last.wrapped_key_blob.tag # "tag"
            \/ last.wrapped_key_blob.secure_key.key #
                  MaskTransitKey(last.wrapped_key_blob.transit_key.plain,
                                 last.masking_key).transport_key

\* The position of a step in the order, and the first step that fails (0 if
\* none does).
StepIndex(step) == CHOOSE i \in 1..Len(UnwrapSteps) : UnwrapSteps[i] = step

FirstFailingStep ==
    LET failing == {i \in 1..Len(UnwrapSteps) : StepFails(UnwrapSteps[i])}
    IN  IF failing = {} THEN 0
        ELSE CHOOSE i \in failing : \A j \in failing : i <= j

\* The status the claim gives for a failed check; "any" where it names none.
StepError(step) ==
    CASE step = "stored_purpose" -> "KM_ERROR_INCOMPATIBLE_PURPOSE"
      [] step \in {"stored_digest", "params_digest"} -> "KM_ERROR_INCOMPATIBLE_DIGEST"
      [] step \in {"stored_padding", "params_padding"} ->
            "KM_ERROR_INCOMPATIBLE_PADDING_MODE"
      [] step = "mask_transit_key" -> "KM_ERROR_INVALID_ARGUMENT"
      [] OTHER -> "any"

(***************************************************************************)
(* C12: when UnwrapKey returns an error, at whatever step, none of its     *)
(* three outputs (the wrapped key's authorization params, its format, its  *)
(* key material) holds data of the call.                                   *)
(***************************************************************************)
C12_NoPartialOutput ==
    (last.op = "UnwrapKey" /\ last.error # "KM_ERROR_OK") =>
        last.outputs = FreshOutputs

(***************************************************************************)
(* C13: UnwrapKey, on a wrapping key that parses, returns                  *)
(* incompatible-purpose when the stored authorizations lack the wrap       *)
(* purpose; incompatible-digest when the stored authorizations or the      *)
(* caller's parameters lack SHA-256; incompatible-padding-mode when either *)
(* lacks OAEP (each when no check before it, in the order stored purpose,  *)
(* stored digest, stored padding, caller digest, caller padding, fails);   *)
(* and invalid-argument when the masking key's length differs from that of *)
(* the decrypted transport key.                                            *)
(***************************************************************************)
C13_IncompatibleErrors ==
    (Unwrapped /\ WrappingKeyParses) =>
        /\ ~StoredHas("KM_TAG_PURPOSE", KM_PURPOSE_WRAP) =>
               last.error = "KM_ERROR_INCOMPATIBLE_PURPOSE"
        /\ ( /\ StoredHas("KM_TAG_PURPOSE", KM_PURPOSE_WRAP)
             /\ ~StoredHas("KM_TAG_DIGEST", KM_DIGEST_SHA_2_256) ) =>
               last.error = "KM_ERROR_INCOMPATIBLE_DIGEST"
        /\ ( /\ StoredHas("KM_TAG_PURPOSE", KM_PURPOSE_WRAP)
             /\ StoredHas("KM_TAG_DIGEST", KM_DIGEST_SHA_2_256)
             /\ ~StoredHas("KM_TAG_PADDING", KM_PAD_RSA_OAEP) ) =>
               last.error = "KM_ERROR_INCOMPATIBLE_PADDING_MODE"
        /\ (\A i \in 1..Len(WrapAuthorizations) :
                StoredHas(WrapAuthorizations[i].tag, WrapAuthorizations[i].val)) =>
               /\ ~ParamsHave("KM_TAG_DIGEST", KM_DIGEST_SHA_2_256) =>
                      last.error = "KM_ERROR_INCOMPATIBLE_DIGEST"
               /\ ( /\ ParamsHave("KM_TAG_DIGEST", KM_DIGEST_SHA_2_256)
                    /\ ~ParamsHave("KM_TAG_PADDING", KM_PAD_RSA_OAEP) ) =>
                      last.error = "KM_ERROR_INCOMPATIBLE_PADDING_MODE"
               /\ ( /\ ParamsHave("KM_TAG_DIGEST", KM_DIGEST_SHA_2_256)
                    /\ ParamsHave("KM_TAG_PADDING", KM_PAD_RSA_OAEP)
                    /\ TransitKeyOpens
                    /\ Len(last.wrapped_key_blob.transit_key.plain)
                          # Len(last.masking_key) ) =>
                      last.error = "KM_ERROR_INVALID_ARGUMENT"

\* A one-byte masking key met a two-byte transport key.
C13_Witness ==
    /\ Unwrapped /\ WrappingKeyParses /\ TransitKeyOpens
    /\ FirstFailingStep = StepIndex("mask_transit_key")
    /\ Len(last.masking_key) = 1
    /\ last.error = "KM_ERROR_INVALID_ARGUMENT"

(***************************************************************************)
(* C14: the steps of UnwrapKey are taken in the order (1) parse of the     *)
(* wrapping key, then the checks of the stored purpose, stored digest,     *)
(* stored padding, caller digest, caller padding, (2) parse of the         *)
(* container, (3) decryption of the transit key and its XOR with the       *)
(* masking key, (4) AES-GCM decryption. The call stops at the first step   *)
(* that fails: no later step is started (the container is not parsed       *)
(* before step 2, no key material is written before the end of step 4),    *)
(* and the error is that of the earliest failing step.                     *)
(***************************************************************************)
C14_StepsInOrder ==
    Unwrapped =>
        IF FirstFailingStep = 0
        THEN /\ last.error = "KM_ERROR_OK"
             /\ last.step = "aes_gcm_decrypt"
             /\ last.outputs.wrapped_key_material =
                   last.wrapped_key_blob.secure_key.sealed
        ELSE /\ last.error # "KM_ERROR_OK"
             /\ last.step = UnwrapSteps[FirstFailingStep]
             /\ StepError(last.step) \in {"any", last.error}
             /\ FirstFailingStep <= StepIndex("parse_wrapped_key") =>
                   last.outputs = FreshOutputs
             /\ last.outputs.wrapped_key_material = NoBlob

\* The stored authorizations lack the padding and the caller's parameters
\* the digest: the stored padding is the earlier check.
C14_Witness ==
    /\ Unwrapped
    /\ FirstFailingStep = StepIndex("stored_padding")
    /\ StepFails("params_digest")
    /\ last.error = "KM_ERROR_INCOMPATIBLE_PADDING_MODE"

(***************************************************************************)
(* C21. The system version is latched by the first SetSystemVersion call:  *)
(* while no call was made GetSystemVersion gives 0 and 0; the first call   *)
(* stores its two arguments; every later call returns success and leaves   *)
(* what GetSystemVersion gives as it was; and no SetBootParams call        *)
(* changes it, whatever was stored.                                        *)
(***************************************************************************)
C21_SystemVersionLatched ==
    [][/\ ~version_info_set_ => GetSystemVersion = <<0, 0>>
       /\ last'.op = "SetSystemVersion"
             => /\ last'.error = "KM_ERROR_OK"
                /\ version_info_set_'
                /\ GetSystemVersion' = IF version_info_set_
                                       THEN GetSystemVersion
                                       ELSE <<last'.os_version, last'.os_patchlevel>>
       /\ last'.op # "SetSystemVersion"
             => /\ GetSystemVersion' = GetSystemVersion
                /\ version_info_set_' = version_info_set_]_vars

\* A later SetSystemVersion call, with another version and another
\* patchlevel than those of the first, returned success: the first are kept.
C21_Witness ==
    /\ last.op = "SetSystemVersion"
    /\ last.error = "KM_ERROR_OK"
    /\ last.os_version # boot_os_version_
    /\ last.os_patchlevel # boot_os_patchlevel_
    /\ boot_os_version_ # 0
    /\ root_of_trust_set_

\* Bit k of a byte.
Bit(byte, k) == (byte \div (2 ^ k)) % 2

(***************************************************************************)
(* C22. Unwrap masking: when the masking key has the length of the         *)
(* decrypted transit key, the transport key has that length too and each   *)
(* of its bytes is the XOR of the two bytes at its place (a bit is set     *)
(* exactly when the two bits differ); with an all-zero masking key the     *)
(* transport key is the decrypted transit key, and masking the transport   *)
(* key once more with the same masking key gives the decrypted transit key *)
(* back.                                                                   *)
(***************************************************************************)
C22_MaskIsXor ==
    (last.op = "mask_transit_key" /\ last.error = "KM_ERROR_OK")
        => /\ Len(last.transport_key) = Len(last.output)
           /\ \A i \in 1..Len(last.output), k \in 0..1 :
                 Bit(last.transport_key[i], k) = 1
                    <=> Bit(last.output[i], k) # Bit(last.masking_key[i], k)
           /\ (\A i \in 1..Len(last.masking_key) : last.masking_key[i] = 0)
                 => last.transport_key = last.output
           /\ MaskTransitKey(last.transport_key, last.masking_key).transport_key
                 = last.output

\* A transit key of two bytes was masked with a key that flips bits of both.
C22_Witness ==
    /\ last.op = "mask_transit_key"
    /\ last.error = "KM_ERROR_OK"
    /\ Len(last.output) = 2
    /\ last.masking_key = <<3, 1>>
    /\ last.output = <<2, 1>>
    /\ last.transport_key = <<1, 0>>

(***************************************************************************)
(* C23. CheckConfirmationToken: when the auth-token key cannot be obtained *)
(* it returns unknown-error and computes no HMAC; when HMAC computes the   *)
(* code of the input bytes under the auth-token key it returns success if  *)
(* the code equals the supplied token and no-user-confirmation if it does  *)
(* not; a code of another length than the token gives                      *)
(* no-user-confirmation; and it never returns success otherwise.           *)
(***************************************************************************)
C23_ConfirmationToken ==
    last.op = "CheckConfirmationToken"
        => LET expected == HmacSha256(auth_token_key_, last.input_data)
               matches == last.confirmation_token = expected
           IN  /\ ~auth_token_key_initialized_
                     => /\ last.error = "KM_ERROR_UNKNOWN_ERROR"
                        /\ last.hmac_calls = 0
               /\ (auth_token_key_initialized_ /\ last.hmac = "ok")
                     => last.error = IF matches THEN "KM_ERROR_OK"
                                     ELSE "KM_ERROR_NO_USER_CONFIRMATION"
               /\ (auth_token_key_initialized_ /\ last.hmac = "short")
                     => last.error = "KM_ERROR_NO_USER_CONFIRMATION"
               /\ last.error = "KM_ERROR_OK"
                     => auth_token_key_initialized_ /\ matches /\ last.hmac = "ok"

\* A token that is the code of the input bytes under another key than the
\* auth-token key was refused.
C23_Witness ==
    /\ last.op = "CheckConfirmationToken"
    /\ auth_token_key_initialized_
    /\ last.hmac = "ok"
    /\ last.confirmation_token.k = "hmac_sha256"
    /\ last.confirmation_token.data = last.input_data
    /\ last.confirmation_token.key # auth_token_key_
    /\ last.error = "KM_ERROR_NO_USER_CONFIRMATION"

(***************************************************************************)
(* C26. Auth-token key caching: once the key is initialized, a             *)
(* GetAuthTokenKey or CheckConfirmationToken call makes no request to the  *)
(* enforcement policy, leaves the key as it is and uses (GetAuthTokenKey:  *)
(* returns) that key; while it is not initialized, each call makes one     *)
(* request, and when the request fails the call returns unknown-error and  *)
(* the key stays uninitialized, and when it succeeds the key is the one    *)
(* the policy gave and is initialized.                                     *)
(***************************************************************************)
C26_AuthTokenKeyCached ==
    [][/\ auth_token_key_initialized_
             => /\ last'.requests = 0
                /\ auth_token_key_initialized_'
                /\ auth_token_key_' = auth_token_key_
                /\ last'.key = auth_token_key_
                /\ last'.op = "GetAuthTokenKey" => last'.error = "KM_ERROR_OK"
       /\ ~auth_token_key_initialized_
             => /\ last'.requests = 1
                /\ last'.policy.error # "KM_ERROR_OK"
                      => /\ last'.error = "KM_ERROR_UNKNOWN_ERROR"
                         /\ ~auth_token_key_initialized_'
                /\ last'.policy.error = "KM_ERROR_OK"
                      => /\ auth_token_key_initialized_'
                         /\ auth_token_key_' = last'.policy.key
                         /\ last'.key = last'.policy.key]_vars

\* A call made with the key initialized, while the policy had another key
\* to give: it was not asked, and the call used the cached one.
C26_Witness ==
    /\ last.op = "CheckConfirmationToken"
    /\ auth_token_key_initialized_
    /\ last.requests = 0
    /\ last.policy.error = "KM_ERROR_OK"
    /\ last.policy.key # auth_token_key_
    /\ last.key = auth_token_key_

\* The entries of a set that have a tag, by their places.
Places(set, tag) == {i \in 1..Len(set) : set[i].tag = tag}

(***************************************************************************)
(* C24. After a successful SetAuthorizations, hw_enforced has exactly one  *)
(* origin entry, with the origin argument, exactly one OS-version entry,   *)
(* with the boot OS version of the context, and exactly one OS-patchlevel  *)
(* entry, with its boot OS patchlevel; it has no boot-patchlevel and no    *)
(* vendor-patchlevel entry, and sw_enforced has no entry of any of the     *)
(* five tags, whatever entries of them the description had.                *)
(***************************************************************************)
C24_SetBelow ==
    (last.op = "SetAuthorizations" /\ last.error = "KM_ERROR_OK")
        => LET hw == last.hw_enforced
               sw == last.sw_enforced
               one(tag, value) == /\ Cardinality(Places(hw, tag)) = 1
                                  /\ \A i \in Places(hw, tag) : hw[i].val = value
           IN  /\ one("KM_TAG_ORIGIN", last.origin)
               /\ one("KM_TAG_OS_VERSION", boot_os_version_)
               /\ one("KM_TAG_OS_PATCHLEVEL", boot_os_patchlevel_)
               /\ Places(hw, "KM_TAG_BOOT_PATCHLEVEL") = {}
               /\ Places(hw, "KM_TAG_VENDOR_PATCHLEVEL") = {}
               /\ \A tag \in SetBelowTags : Places(sw, tag) = {}

\* A description with an origin and an OS patchlevel of the caller's, given
\* after the system version was set: it succeeded.
C24_Witness ==
    /\ last.op = "SetAuthorizations"
    /\ last.error = "KM_ERROR_OK"
    /\ version_info_set_
    /\ Places(last.key_description, "KM_TAG_ORIGIN") # {}
    /\ Places(last.key_description, "KM_TAG_OS_PATCHLEVEL") # {}
    /\ \A i \in Places(last.key_description, "KM_TAG_ORIGIN") :
          last.key_description[i].val # last.origin
    /\ \A i \in Places(last.key_description, "KM_TAG_OS_PATCHLEVEL") :
          last.key_description[i].val # boot_os_patchlevel_

\* The user-auth-type entries of a set, in their order.
UserAuthTypes(set) == SelectSeq(set, LAMBDA p : p.tag = "KM_TAG_USER_AUTH_TYPE")

\* The bits of a bitmask the build enforces: the password bit (bit 0), and
\* the fingerprint bit (bit 1) where fingerprint support is compiled in.
EnforcedBits(value) ==
    Bit(value, 0)
    + (IF build.TEE_FINGERPRINT_AUTH_SUPPORTED THEN 2 * Bit(value, 1) ELSE 0)

(***************************************************************************)
(* C27. User-auth-type masking: after a successful SetAuthorizations,      *)
(* hw_enforced has one user-auth-type entry for each one of the            *)
(* description, in the same order, whose value is the input's password bit *)
(* and, only where fingerprint support is compiled in, its fingerprint     *)
(* bit: an entry is there even when that value is 0. Whatever the outcome  *)
(* of the call, no other bit of an input is in hw_enforced, and            *)
(* sw_enforced has no user-auth-type entry.                                *)
(***************************************************************************)
C27_UserAuthTypeMasked ==
    last.op = "SetAuthorizations"
        => LET given == UserAuthTypes(last.key_description)
               kept == UserAuthTypes(last.hw_enforced)
           IN  /\ last.error = "KM_ERROR_OK"
                     => /\ Len(kept) = Len(given)
                        /\ \A i \in 1..Len(given) :
                              kept[i].val = EnforcedBits(given[i].val)
               /\ \A i \in 1..Len(kept) :
                     kept[i].val < (IF build.TEE_FINGERPRINT_AUTH_SUPPORTED
                                    THEN 4 ELSE 2)
               /\ UserAuthTypes(last.sw_enforced) = <<>>

\* In a build with fingerprint support, a description with a bitmask that
\* has only an unknown bit and one that has all three: entries of 0 and 3.
C27_Witness ==
    /\ last.op = "SetAuthorizations"
    /\ last.error = "KM_ERROR_OK"
    /\ build.TEE_FINGERPRINT_AUTH_SUPPORTED
    /\ Len(UserAuthTypes(last.key_description)) = 2
    /\ UserAuthTypes(last.key_description)[1].val = 4
    /\ UserAuthTypes(last.key_description)[2].val = 7
    /\ UserAuthTypes(last.hw_enforced)[1].val = 0
    /\ UserAuthTypes(last.hw_enforced)[2].val = 3

\* The first entry of a set that has a tag, if there is one.
FirstOf(set, tag) ==
    LET having == SelectSeq(set, LAMBDA p : p.tag = tag)
    IN  IF having = <<>> THEN <<>> ELSE <<having[1]>>

ParseWithOtherFlag ==
    LET r == ParseKeyBlob(Prefixed(last.types, held.blob), last.additional_params,
                          ~last.allow_ocb, last.hwkey, last.ub)
    IN  [error |-> r.error, key |-> r.key]

\* The blob of the last parse is of the legacy format.
ParsedLegacy == last.op = "ParseKeyBlob" /\ held.by = "legacy"

(***************************************************************************)
(* C25. The legacy-format flag does not affect parsing: ParseKeyBlob with  *)
(* the other value of allow_ocb, on the same blob, with the same           *)
(* additional params, in the same context, returns the same status and the *)
(* same key; and a blob of the legacy format that parses with the flag set *)
(* parses without it, and is never answered with key-requires-upgrade.     *)
(***************************************************************************)
C25_LegacyFlagIgnored ==
    /\ last.op = "ParseKeyBlob" => ParseWithOtherFlag = ParseResult
    /\ ParsedLegacy => last.error # "KM_ERROR_KEY_REQUIRES_UPGRADE"

\* An AES_OCB blob was parsed without the flag, and a key was loaded.
C25_Witness ==
    /\ ParsedLegacy
    /\ ~last.allow_ocb
    /\ held.blob[1].encrypted_key.format = "AES_OCB"
    /\ last.error = "KM_ERROR_OK"
    /\ last.key # None
    /\ last.key.key_material = held.key_material

(***************************************************************************)
(* C29. ParseKeyBlob never dispatches to a missing loader, as claimed: a   *)
(* ParseKeyBlob call either returns an error, or returns success with the  *)
(* key that the factory of one of the five supported algorithms loaded; no *)
(* call goes through a null factory (no call faults the task, and none     *)
(* returns success without a key). The code does not satisfy it.           *)
(***************************************************************************)
C29_NoNullDispatch ==
    last.op = "ParseKeyBlob"
        => /\ last.error # "TASK_FAULT"
           /\ last.error = "KM_ERROR_OK"
                 => /\ last.key # None
                    /\ last.key.factory \in {"rsa_factory_", "ec_factory_",
                                              "aes_factory_", "hmac_factory_",
                                              "tdes_factory_"}

\* A verified boot state that has a signed image behind it.
Signed(state) ==
    state \in {"KM_VERIFIED_BOOT_VERIFIED", "KM_VERIFIED_BOOT_SELF_SIGNED"}

(***************************************************************************)
(* C30. Root-of-trust normalization: once SetBootParams has succeeded, the *)
(* stored device-locked flag is true only if the stored verified boot      *)
(* state is verified or self-signed and the stored verified boot key is    *)
(* not empty, and with a stored state of unverified or failed the stored   *)
(* key is empty and the device is unlocked. The successful call stores a   *)
(* verified or self-signed state given with an empty key as unverified and *)
(* unlocked, an unverified or failed state as given, with an empty key and *)
(* unlocked, and every other combination as given.                         *)
(***************************************************************************)
C30_RootOfTrustNormalized ==
    /\ root_of_trust_set_
          => /\ device_locked_
                   => Signed(verified_boot_state_) /\ verified_boot_key_ # <<>>
             /\ ~Signed(verified_boot_state_)
                   => verified_boot_key_ = <<>> /\ ~device_locked_
    /\ (last.op = "SetBootParams" /\ last.error = "KM_ERROR_OK")
          => /\ verified_boot_hash_ = last.verified_boot_hash
             /\ (Signed(last.verified_boot_state) /\ last.verified_boot_key = <<>>)
                   => /\ verified_boot_state_ = "KM_VERIFIED_BOOT_UNVERIFIED"
                      /\ ~device_locked_
                      /\ verified_boot_key_ = <<>>
             /\ ~Signed(last.verified_boot_state)
                   => /\ verified_boot_state_ = last.verified_boot_state
                      /\ ~device_locked_
                      /\ verified_boot_key_ = <<>>
             /\ (Signed(last.verified_boot_state) /\ last.verified_boot_key # <<>>)
                   => /\ verified_boot_state_ = last.verified_boot_state
                      /\ device_locked_ = last.device_locked
                      /\ verified_boot_key_ = last.verified_boot_key

\* A locked device with a verified state and no boot key was given, and
\* stored as unverified and unlocked.
C30_Witness ==
    /\ last.op = "SetBootParams"
    /\ last.error = "KM_ERROR_OK"
    /\ last.verified_boot_state = "KM_VERIFIED_BOOT_VERIFIED"
    /\ last.verified_boot_key = <<>>
    /\ last.device_locked
    /\ verified_boot_state_ = "KM_VERIFIED_BOOT_UNVERIFIED"
    /\ ~device_locked_

(***************************************************************************)
(* C31: a failed periodic reseed is not retried on the next check. When    *)
(* the hardware read of the reseed asked on a 32nd check of a seeded RNG   *)
(* fails, the call counter still counts that check, the 31 checks that     *)
(* follow ask for no reseed, the 32nd check after the failed one asks for  *)
(* the next, and SeedRngIfNeeded returns true at the failed check and at   *)
(* every check after it.                                                   *)
(***************************************************************************)
C31_FailedReseedNotRetried ==
    last.op = "SeedRngIfNeeded" =>
        /\ (last.initialized_before /\ last.reseed
              /\ last.trusty_rng = "hw_rand_fails")
              => /\ last.result
                 /\ calls_since_reseed_ = rng_history.checks
                 /\ calls_since_reseed_ % kCallsBetweenRngReseeds = 0
        /\ last.since_failed > 0
              => /\ last.result
                 /\ calls_since_reseed_ = rng_history.checks
                 /\ last.since_failed \in 1..(kCallsBetweenRngReseeds - 1)
                       => ~last.reseed
                 /\ last.since_failed = kCallsBetweenRngReseeds => last.reseed

\* The reseed of the 32nd check failed in the hardware read, and the 64th
\* check, 32 checks later, is the first to ask again.
C31_Witness ==
    /\ last.op = "SeedRngIfNeeded"
    /\ last.since_failed = kCallsBetweenRngReseeds
    /\ last.reseed
    /\ rng_history = [checks |-> 64, reseeds |-> 2]
====
